---- MODULE Spec2Model ----
(***************************************************************************)
(* The agent-gate daemon (daemon.js, lib/socket.js, lib/config.js) as a    *)
(* state machine.  JavaScript runs one macrotask at a time: each action is *)
(* one synchronous segment of a handler, from an event (a line on the      *)
(* socket, an HTTP callback, a timer, a completed provider or channel      *)
(* call, a signal) up to the next await.  Promise continuations are        *)
(* microtasks: they wait in the FIFO `micro` and run before the next       *)
(* macrotask.                                                              *)
(*                                                                         *)
(* Strings the code takes apart (reasons, reasonMatch patterns) are        *)
(* sequences of one-character strings; a secret reference is a scheme and  *)
(* its path segments.  Time is counted in ticks and kept relative: where   *)
(* the code stores Date.now() + d, the model stores the ticks left until   *)
(* that moment, and Tick counts them down.                                 *)
(***************************************************************************)
EXTENDS Integers, Sequences, FiniteSets, TLC

\* ---------------------------------------------------------------- bounds
MaxReq == 2        \* request lines received on the connection

Reqs == 1..MaxReq

\* ------------------------------------------------------------ vocabulary
Null == "null"
IdOrder == <<"a1b2", "c3d4", "e5f6">>
Ids == {IdOrder[i] : i \in 1..Len(IdOrder)}   \* what crypto.randomBytes may return

cron == <<"c", "r", "o", "n", ":">>
StarPat == cron \o <<"*">>
ReasonNightly == cron \o <<"n">>
ReasonCheck == <<"c", "h", "k">>
NoReason == <<>>
Reasons == {NoReason, ReasonCheck, ReasonNightly}

Uri(vault, item) == [scheme |-> "op", segs |-> <<vault, item, "f">>]
NoUri == [scheme |-> "", segs |-> <<>>]
UriStripe == Uri("sec", "stripe")
UriCron == Uri("sec", "cron-key")
UriPub == Uri("pub", "k")
UriOther == Uri("other", "k")                                \* a container of no list
UriBad == [scheme |-> "http", segs |-> <<"sec", "stripe", "f">>]   \* not an op:// reference
\* The same references with their container written in other cases.
VaultSpellings == {"sec", "Sec", "SEC", "pub", "Pub", "PUB", "other", "OTHER"}
ClassifyUris == {Uri(v, "stripe") : v \in VaultSpellings}
UriSet == {UriStripe, UriCron, UriPub, UriOther, UriBad} \cup ClassifyUris

NoLine == [kind |-> "none", action |-> "", uri |-> NoUri, reason |-> NoReason]
ReadLine(u, s) == [kind |-> "json", action |-> "read", uri |-> u, reason |-> s]
ReadLines == {ReadLine(UriStripe, ReasonCheck), ReadLine(UriStripe, NoReason),
              ReadLine(UriCron, ReasonNightly),
              ReadLine(UriPub, NoReason),
              ReadLine(UriOther, ReasonCheck), ReadLine(UriBad, ReasonCheck)}
PingLine == [kind |-> "json", action |-> "ping", uri |-> NoUri, reason |-> NoReason]
MalformedLine == [kind |-> "malformed", action |-> "", uri |-> NoUri, reason |-> NoReason]
StatusLine == [kind |-> "json", action |-> "status", uri |-> NoUri, reason |-> NoReason]
UnknownLine == [kind |-> "json", action |-> "frobnicate", uri |-> NoUri, reason |-> NoReason]
EmptyLine == [kind |-> "empty", action |-> "", uri |-> NoUri, reason |-> NoReason]
Lines == ReadLines \cup {PingLine, MalformedLine, StatusLine, UnknownLine, EmptyLine}
ClassifyLines == {ReadLine(u, ReasonCheck) : u \in ClassifyUris}
                   \cup {ReadLine(Uri("Sec", "stripe"), NoReason),
                         ReadLine(Uri("pub", "stripe"), NoReason)}

\* ---------------------------------------------------------- configuration
CHANNEL_CLASSES == {"telegram", "my-channel"}
CronRule == [item |-> "cron-key", reasonMatch |-> StarPat, note |-> "cron"]
Configs ==
  { [cacheTTL |-> 1, approvalTimeoutMs |-> 1, channels |-> <<"telegram", "my-channel">>,
     openVaults |-> {"Pub"}, gatedVaults |-> {"Sec"}, standingApprovals |-> <<CronRule>>],
    [cacheTTL |-> 0, approvalTimeoutMs |-> 1, channels |-> <<"telegram">>,
     openVaults |-> {"Pub"}, gatedVaults |-> {"Sec"}, standingApprovals |-> <<CronRule>>],
    [cacheTTL |-> 0 - 1, approvalTimeoutMs |-> 1, channels |-> <<"telegram">>,
     openVaults |-> {"Pub"}, gatedVaults |-> {"Sec"}, standingApprovals |-> <<CronRule>>],
    [cacheTTL |-> 0, approvalTimeoutMs |-> 1, channels |-> <<"slack">>,
     openVaults |-> {"Pub"}, gatedVaults |-> {"Sec"}, standingApprovals |-> <<CronRule>>] }

\* Configurations whose lists spell the containers in several cases, some
\* with a container in both lists.
ClassifyConfigs ==
  { [cacheTTL |-> 0, approvalTimeoutMs |-> 1, channels |-> <<"telegram">>,
     openVaults |-> o, gatedVaults |-> g, standingApprovals |-> <<CronRule>>] :
      o \in {{"Pub"}, {"PUB"}, {"pub", "SEC"}}, g \in {{"Sec"}, {"SEC"}, {"sec", "Pub"}} }

\* A value of the configuration file with its JavaScript type; a string
\* is kept with the number it converts to in a comparison.
Num(n) == [typeof |-> "number", value |-> n]
Str(n) == [typeof |-> "string", value |-> n]

\* One tick of the model's time, in milliseconds; the configuration above
\* as its file states it, in milliseconds.
TickMs == 10000
InMs(c) == [c EXCEPT !.cacheTTL = @ * TickMs, !.approvalTimeoutMs = Num(@ * TickMs)]

\* config.js validate(config): the errors it collects (it throws if any).
MinApprovalTimeoutMs == 10000
ValidateRest(c) ==
  (IF c.openVaults = {} /\ c.gatedVaults = {} THEN {"No vaults configured"} ELSE {})
  \cup (IF c.gatedVaults # {} /\ Len(c.channels) = 0
        THEN {"Gated vaults require at least one approval channel"} ELSE {})
  \cup {"missing item" : i \in {j \in 1..Len(c.standingApprovals) :
                                  c.standingApprovals[j].item = ""}}
  \cup {"missing reasonMatch" : i \in {j \in 1..Len(c.standingApprovals) :
                                  c.standingApprovals[j].reasonMatch = <<>>}}

\* Mutant: a timeout of exactly the minimum is rejected.
validate_MinimumExcluded(c) ==
  ValidateRest(c)
  \cup (IF c.approvalTimeoutMs.typeof # "number"
           \/ c.approvalTimeoutMs.value <= MinApprovalTimeoutMs
        THEN {"approvalTimeoutMs must be at least 10000"} ELSE {})

validate(c) ==
  ValidateRest(c)
  \cup (IF c.approvalTimeoutMs.typeof # "number"
           \/ c.approvalTimeoutMs.value < MinApprovalTimeoutMs
        THEN {"approvalTimeoutMs must be at least 10000"} ELSE {})

VARIABLES
  config,            \* the loaded configuration
  halted,            \* process.exit was called
  nreq,              \* lines received so far on the connection
  req,               \* req[r]: the r-th line
  inChunk,           \* the data handler's while loop has more lines to go
  out,               \* lines written to the connection, in order
  micro,             \* the microtask queue (request numbers)
  pc,                \* where each request's handler stands
  result,            \* the handler's return value, once it returned
  requestId,         \* the id minted for the request
  messageRefs,       \* channels (indices) whose prompt succeeded
  chanIdx,           \* loop position in the send and update loops
  promise,           \* state of the waitForApproval promise
  settleCalls,       \* calls of resolve or reject on that promise
  pendingRequests,   \* the registry: id -> owning request (0: no entry)
  timer,             \* ticks until the request's setTimeout is due (-1: none)
  pollInterval,      \* the request's setInterval is running
  dropDir,           \* PENDING_DIR: id -> content of <id>.json
  cache,             \* uri -> entry (expiresAt: ticks left, -1: expired)
  auditLog,          \* records appended by audit.log
  prompts,           \* prompts the channels have received
  updates,           \* updateApprovalMessage calls issued, per request
  fetches,           \* provider.read calls issued, per request
  files,             \* which of the socket file and the PID file exist
  stderr,            \* audit records written to process.stderr instead
  auditFails,        \* fs.appendFileSync on the audit log throws at present
  argItem,           \* matchesStandingApproval called on its own: the item,
  argReason,         \*   the reason,
  standing,          \*   and what it returned (-1: not called)
  errors,            \* validate called on its own: the errors it found
  boot,              \* how far main() has come
  connOpen           \* the client's connection is open

dvars == <<out, micro, pc, result, requestId, messageRefs, chanIdx, promise,
           settleCalls, pendingRequests, timer, pollInterval, dropDir, cache,
           auditLog, updates, fetches, files, stderr, auditFails>>
mvars == <<argItem, argReason, standing, errors, boot>>
vars == <<config, halted, nreq, req, inChunk, prompts, dvars, mvars, connOpen>>

\* The daemon's mutable state as one record, so that the code's functions
\* are operators from state to state.
Cur ==
  [out |-> out, micro |-> micro, pc |-> pc, result |-> result,
   requestId |-> requestId, messageRefs |-> messageRefs, chanIdx |-> chanIdx,
   promise |-> promise, settleCalls |-> settleCalls,
   pendingRequests |-> pendingRequests, timer |-> timer,
   pollInterval |-> pollInterval, dropDir |-> dropDir, cache |-> cache,
   auditLog |-> auditLog, updates |-> updates, fetches |-> fetches,
   files |-> files, stderr |-> stderr, auditFails |-> auditFails]

Commit(M) ==
  /\ out' = M.out /\ micro' = M.micro /\ pc' = M.pc /\ result' = M.result
  /\ requestId' = M.requestId /\ messageRefs' = M.messageRefs
  /\ chanIdx' = M.chanIdx /\ promise' = M.promise
  /\ settleCalls' = M.settleCalls /\ pendingRequests' = M.pendingRequests
  /\ timer' = M.timer /\ pollInterval' = M.pollInterval
  /\ dropDir' = M.dropDir /\ cache' = M.cache /\ auditLog' = M.auditLog
  /\ updates' = M.updates /\ fetches' = M.fetches
  /\ files' = M.files /\ stderr' = M.stderr /\ auditFails' = M.auditFails

\* ------------------------------------------------------------- responses
Resp(t, v, n) == [t |-> t, v |-> v, n |-> n]
Value(v) == Resp("value", v, 0)
Error(msg) == Resp("error", msg, 0)
NoResp == Resp("none", "", 0)

\* --------------------------------------------------------------- helpers
channels == SelectSeq(config.channels, LAMBDA name : name \in CHANNEL_CLASSES)

STANDING_APPROVALS == config.standingApprovals

NoEntry == [value |-> Null, expiresAt |-> 0 - 2]

NullParsed == [vault |-> "", item |-> "", field |-> <<>>]

parseUri(uri) ==
  IF uri.scheme = "op" /\ Len(uri.segs) >= 3
  THEN [vault |-> uri.segs[1], item |-> uri.segs[2],
        field |-> SubSeq(uri.segs, 3, Len(uri.segs))]
  ELSE NullParsed

\* String.prototype.toLowerCase on the container names in use.
toLowerCase(s) ==
  CASE s = "Sec" -> "sec"
    [] s = "SEC" -> "sec"
    [] s = "Pub" -> "pub"
    [] s = "PUB" -> "pub"
    [] s = "OTHER" -> "other"
    [] OTHER -> s

OPEN_VAULTS == {toLowerCase(v) : v \in config.openVaults}
GATED_VAULTS == {toLowerCase(v) : v \in config.gatedVaults}

endsWithStar(p) == Len(p) > 0 /\ p[Len(p)] = "*"
\* Mutant: the text before the * may stand at the end of the reason.
startsWith_OrEndsWith(s, p) ==
  /\ Len(s) >= Len(p)
  /\ SubSeq(s, 1, Len(p)) = p \/ SubSeq(s, Len(s) - Len(p) + 1, Len(s)) = p

startsWith(s, p) == Len(s) >= Len(p) /\ SubSeq(s, 1, Len(p)) = p

RuleMatches(sa, item, reason) ==
  /\ sa.item = item
  /\ IF endsWithStar(sa.reasonMatch)
     THEN startsWith(reason, SubSeq(sa.reasonMatch, 1, Len(sa.reasonMatch) - 1))
     ELSE sa.reasonMatch = reason

\* The index of the first matching rule, 0 for none.
matchesStandingApproval(item, reason) ==
  IF reason = NoReason THEN 0
  ELSE LET hits == {i \in 1..Len(STANDING_APPROVALS) :
                      RuleMatches(STANDING_APPROVALS[i], item, reason)}
       IN IF hits = {} THEN 0 ELSE CHOOSE i \in hits : \A j \in hits : i <= j

Audit(action, res, id, uri) == [action |-> action, result |-> res, requestId |-> id, uri |-> uri]

\* Mutant: a record that cannot be appended is dropped.
audit_log_LosesRecord(M, entry) ==
  IF M.auditFails THEN M
  ELSE [M EXCEPT !.auditLog = Append(@, entry)]

\* AuditLog.log: append the line, or on failure write it to process.stderr.
audit_log(M, entry) ==
  IF M.auditFails THEN [M EXCEPT !.stderr = Append(@, entry)]
  ELSE [M EXCEPT !.auditLog = Append(@, entry)]

\* ------------------------------------------------------------------ cache
\* Mutant: the lookup never finds an entry.
getCachedValue_NeverHits(M, uri) == Null

getCachedValue(M, uri) ==
  IF config.cacheTTL <= 0 THEN Null
  ELSE IF M.cache[uri] = NoEntry THEN Null
  ELSE IF 0 > M.cache[uri].expiresAt THEN Null
  ELSE M.cache[uri].value

\* getCached deletes the entry it finds expired.
getCachedState(M, uri) ==
  IF config.cacheTTL > 0 /\ M.cache[uri] # NoEntry /\ 0 > M.cache[uri].expiresAt
  THEN [M EXCEPT !.cache[uri] = NoEntry]
  ELSE M

\* Mutant: only a negative TTL disables the store.
setCache_OnlyNegativeDisables(M, uri, value) ==
  IF config.cacheTTL < 0 THEN M
  ELSE [M EXCEPT !.cache[uri] = [value |-> value, expiresAt |-> 0 + config.cacheTTL]]

setCache(M, uri, value) ==
  IF config.cacheTTL <= 0 THEN M
  ELSE [M EXCEPT !.cache[uri] = [value |-> value, expiresAt |-> 0 + config.cacheTTL]]

\* --------------------------------------------------------- approval flow
\* Mutant: the entry is not deleted from the registry.
cleanup_KeepsEntry(M, id) ==
  LET r == M.pendingRequests[id] IN
  IF r = 0 THEN M
  ELSE [M EXCEPT !.timer[r] = 0 - 1,
                 !.pollInterval[r] = FALSE,
                 !.dropDir[id] = "none"]

\* Mutant: the timers and pollers of all entries are cleared.
cleanup_ClearsAllTimers(M, id) ==
  LET r == M.pendingRequests[id] IN
  IF r = 0 THEN M
  ELSE [M EXCEPT !.timer = [q \in DOMAIN M.timer |-> 0 - 1],
                 !.pollInterval = [q \in DOMAIN M.pollInterval |-> FALSE],
                 !.pendingRequests[id] = 0,
                 !.dropDir[id] = "none"]

\* Mutant: the poller of the entry is left running.
cleanup_KeepsPoller(M, id) ==
  LET r == M.pendingRequests[id] IN
  IF r = 0 THEN M
  ELSE [M EXCEPT !.timer[r] = 0 - 1,
                 !.pendingRequests[id] = 0,
                 !.dropDir[id] = "none"]

cleanup(M, id) ==
  LET r == M.pendingRequests[id] IN
  IF r = 0 THEN M
  ELSE [M EXCEPT !.timer[r] = 0 - 1,
                 !.pollInterval[r] = FALSE,
                 !.pendingRequests[id] = 0,
                 !.dropDir[id] = "none"]

\* Calling resolve or reject on the promise of request r: only the first
\* call settles it and queues the continuation.
Settle(M, r, how) ==
  IF M.promise[r] = "pending"
  THEN [M EXCEPT !.promise[r] = how, !.settleCalls[r] = @ + 1,
                 !.micro = Append(@, r)]
  ELSE [M EXCEPT !.settleCalls[r] = @ + 1]

\* JavaScript values, written as their JSON text ("undefined": the field is
\* missing), and the ones that !! turns into false.
JsValues == {"true", "false", "null", "undefined", "0", "1", "''", "'false'"}
Falsy == {"false", "null", "undefined", "0", "''"}

\* Mutant: the string 'false' counts as false.
truthy_ReadsStrings(approved) == approved \notin Falsy \cup {"'false'"}

truthy(approved) == approved \notin Falsy

resolveApprovalRet(M, id) == M.pendingRequests[id] # 0

\* Mutant: the drop file of the id is unlinked before the registry is asked.
resolveApproval_UnlinksFirst(M, id, approved) ==
  LET r == M.pendingRequests[id] IN
  IF r = 0 THEN [M EXCEPT !.dropDir[id] = "none"]
  ELSE Settle(cleanup(M, id), r, IF truthy(approved) THEN "true" ELSE "false")

resolveApproval(M, id, approved) ==
  LET r == M.pendingRequests[id] IN
  IF r = 0 THEN M
  ELSE Settle(cleanup(M, id), r, IF truthy(approved) THEN "true" ELSE "false")

\* Mutant: the waiter is suspended without an entry in the registry.
waitForApproval_Unregistered(M, r, id) ==
  [M EXCEPT !.timer[r] = 0 + config.approvalTimeoutMs,
            !.pollInterval[r] = TRUE,
            !.promise[r] = "pending",
            !.pc[r] = "waiting"]

waitForApproval(M, r, id) ==
  [M EXCEPT !.timer[r] = 0 + config.approvalTimeoutMs,
            !.pollInterval[r] = TRUE,
            !.pendingRequests[id] = r,
            !.promise[r] = "pending",
            !.pc[r] = "waiting"]

\* The handler returned `response`: the .then of _onConnection is queued.
Return(M, r, response) ==
  [M EXCEPT !.result[r] = response, !.pc[r] = "respond", !.micro = Append(@, r)]

\* The daemon once main() has run: the PID file written, the socket bound.
ModuleInit ==
  /\ halted = FALSE
  /\ nreq = 0
  /\ req = [r \in Reqs |-> NoLine]
  /\ inChunk = FALSE
  /\ out = <<>>
  /\ micro = <<>>
  /\ pc = [r \in Reqs |-> "idle"]
  /\ result = [r \in Reqs |-> NoResp]
  /\ requestId = [r \in Reqs |-> Null]
  /\ messageRefs = [r \in Reqs |-> {}]
  /\ chanIdx = [r \in Reqs |-> 0]
  /\ promise = [r \in Reqs |-> "none"]
  /\ settleCalls = [r \in Reqs |-> 0]
  /\ pendingRequests = [i \in Ids |-> 0]
  /\ timer = [r \in Reqs |-> 0 - 1]
  /\ pollInterval = [r \in Reqs |-> FALSE]
  /\ dropDir = [i \in Ids |-> "none"]
  /\ cache = [u \in UriSet |-> NoEntry]
  /\ auditLog = <<>>
  /\ prompts = {}
  /\ updates = [r \in Reqs |-> <<>>]
  /\ fetches = [r \in Reqs |-> <<>>]
  /\ stderr = <<>>
  /\ auditFails = FALSE
  /\ connOpen = TRUE

\* main() has run to its end: the PID file is written, the socket is bound
\* and the signal handlers are registered.
Ready == [phase |-> "ready", k |-> 0]
DaemonInit ==
  /\ ModuleInit
  /\ files = {"socket", "pid"}
  /\ boot = Ready

NotCalled == {"not called"}

\* loadConfig() has validated the configuration before anything else runs.
Init ==
  /\ config \in {c \in Configs : validate(InMs(c)) = {}}
  /\ DaemonInit
  /\ argItem = "" /\ argReason = NoReason /\ standing = 0 - 1
  /\ errors = NotCalled

\* --------------------------------------------------------- handleRead
\* Mutant: the request goes on only if every prompt succeeded.
SendLoop_NeedsEveryChannel(M, r, k) ==
  IF k <= Len(channels)
  THEN [M EXCEPT !.pc[r] = "sending", !.chanIdx[r] = k]
  ELSE IF Cardinality(M.messageRefs[r]) < Len(channels)
  THEN Return(M, r, Error("Failed to send approval request to any channel"))
  ELSE waitForApproval(M, r, M.requestId[r])

\* for (const channel of channels) { await channel.sendApprovalRequest }
\* from position k on, then the check of messageRefs and waitForApproval.
SendLoop(M, r, k) ==
  IF k <= Len(channels)
  THEN [M EXCEPT !.pc[r] = "sending", !.chanIdx[r] = k]
  ELSE IF M.messageRefs[r] = {} /\ Len(channels) > 0
  THEN Return(M, r, Error("Failed to send approval request to any channel"))
  ELSE waitForApproval(M, r, M.requestId[r])

\* Mutant: the `if (!approved) return` is missing, a denial goes on to fetch.
AfterUpdates_FetchesOnDenial(M, r) ==
  LET id == M.requestId[r]
      uri == req[r].uri
  IN CASE M.promise[r] = "rejected" ->
            Return(audit_log(M, Audit("timeout", "", id, uri)), r,
                   Resp("error", "Approval timed out", config.approvalTimeoutMs))
       [] OTHER ->
            [audit_log(M, Audit("approved", "", id, uri))
               EXCEPT !.fetches[r] = Append(@, TRUE), !.pc[r] = "fetching"]

\* Mutant: an approval is not audited before the fetch.
AfterUpdates_UnauditedApproval(M, r) ==
  LET id == M.requestId[r]
      uri == req[r].uri
  IN CASE M.promise[r] = "rejected" ->
            Return(audit_log(M, Audit("timeout", "", id, uri)), r,
                   Resp("error", "Approval timed out", config.approvalTimeoutMs))
       [] M.promise[r] = "false" ->
            Return(audit_log(M, Audit("denied", "", id, uri)), r,
                   Error("Request denied by operator"))
       [] OTHER ->
            [M EXCEPT !.fetches[r] = Append(@, TRUE), !.pc[r] = "fetching"]

\* What follows the update loop: the rest of the try block, or of the catch.
AfterUpdates(M, r) ==
  LET id == M.requestId[r]
      uri == req[r].uri
  IN CASE M.promise[r] = "rejected" ->
            Return(audit_log(M, Audit("timeout", "", id, uri)), r,
                   Resp("error", "Approval timed out", config.approvalTimeoutMs))
       [] M.promise[r] = "false" ->
            Return(audit_log(M, Audit("denied", "", id, uri)), r,
                   Error("Request denied by operator"))
       [] OTHER ->
            [audit_log(M, Audit("approved", "", id, uri))
               EXCEPT !.fetches[r] = Append(@, TRUE), !.pc[r] = "fetching"]

\* Mutant: after a denial the channel messages are not updated.
UpdateLoop_SkipsOnDenial(M, r, k) ==
  LET rest == {c \in M.messageRefs[r] : c >= k} IN
  IF rest = {} \/ M.promise[r] = "false" THEN AfterUpdates(M, r)
  ELSE LET c == CHOOSE x \in rest : \A y \in rest : x <= y IN
       [M EXCEPT !.updates[r] = Append(@, <<c, M.promise[r] = "true">>),
                 !.pc[r] = "updating", !.chanIdx[r] = c]

\* for (const { channel, ref } of messageRefs) { await channel.update... }
\* from channel position k on; the call is issued, then awaited.
UpdateLoop(M, r, k) ==
  LET rest == {c \in M.messageRefs[r] : c >= k} IN
  IF rest = {} THEN AfterUpdates(M, r)
  ELSE LET c == CHOOSE x \in rest : \A y \in rest : x <= y IN
       [M EXCEPT !.updates[r] = Append(@, <<c, M.promise[r] = "true">>),
                 !.pc[r] = "updating", !.chanIdx[r] = c]

\* handleRead with one deviation `dev` from the code, for the mutants below.
handleReadWith(M, r, request, id, dev) ==
  LET uri == request.uri
      reason == request.reason
      parsed == parseUri(uri)
      vaultLower == IF dev = "caseSensitive" THEN parsed.vault
                    ELSE toLowerCase(parsed.vault)
      rejected(msg) == IF dev = "auditsRejects"
                       THEN Return(audit_log(M, Audit("read_error", "", Null, uri)), r, Error(msg))
                       ELSE Return(M, r, Error(msg))
  IN
  IF uri = NoUri THEN Return(M, r, Error("Missing uri field"))
  ELSE IF parsed = NullParsed THEN rejected("Invalid URI")
  ELSE IF vaultLower \in OPEN_VAULTS /\ (dev # "gatedFirst" \/ vaultLower \notin GATED_VAULTS)
  THEN [audit_log(M, Audit("read", "allowed", Null, uri))
          EXCEPT !.fetches[r] = Append(@, dev = "openElevated"), !.pc[r] = "openFetch"]
  ELSE IF vaultLower \in GATED_VAULTS
  THEN IF reason = NoReason /\ (dev # "cacheBeforeReason" \/ getCachedValue(M, uri) = Null)
       THEN Return(M, r, Error("Reason is REQUIRED for gated vault items"))
       ELSE IF matchesStandingApproval(parsed.item, reason) # 0
       THEN [(IF dev = "standingUnaudited" THEN M
              ELSE audit_log(M, Audit("read", "standing_approval", Null, uri)))
               EXCEPT !.fetches[r] = Append(@, TRUE), !.pc[r] = "standingFetch"]
       ELSE IF getCachedValue(M, uri) # Null
       THEN Return(audit_log(M, Audit("read", "cache_hit", Null, uri)), r,
                   Value(getCachedValue(M, uri)))
       ELSE SendLoop(
              audit_log([getCachedState(M, uri) EXCEPT !.requestId[r] = id],
                        Audit("request", "pending", id, uri)),
              r, 1)
  ELSE rejected("Vault is not configured as open or gated")

\* Mutant: the two classification errors are audited.
handleRead_AuditsRejects(M, r, request, id) ==
  handleReadWith(M, r, request, id, "auditsRejects")

\* Mutant: the open path fetches with the service account.
handleRead_OpenElevated(M, r, request, id) ==
  handleReadWith(M, r, request, id, "openElevated")

\* Mutant: the cache is consulted before the reason is checked.
handleRead_CacheBeforeReason(M, r, request, id) ==
  handleReadWith(M, r, request, id, "cacheBeforeReason")

\* Mutant: the standing path does not audit standing_approval.
handleRead_StandingUnaudited(M, r, request, id) ==
  handleReadWith(M, r, request, id, "standingUnaudited")

\* Mutant: the container of the request is compared as it is written.
handleRead_CaseSensitive(M, r, request, id) ==
  handleReadWith(M, r, request, id, "caseSensitive")

\* Mutant: the gated list is consulted before the open list.
handleRead_GatedFirst(M, r, request, id) ==
  handleReadWith(M, r, request, id, "gatedFirst")

\* handleRead up to its first await; `id` is what generateRequestId returns
\* if it is called.
handleRead(M, r, request, id) ==
  LET uri == request.uri
      reason == request.reason
      parsed == parseUri(uri)
      vaultLower == toLowerCase(parsed.vault)
  IN
  IF uri = NoUri THEN Return(M, r, Error("Missing uri field"))
  ELSE IF parsed = NullParsed THEN Return(M, r, Error("Invalid URI"))
  ELSE IF vaultLower \in OPEN_VAULTS
  THEN [audit_log(M, Audit("read", "allowed", Null, uri))
          EXCEPT !.fetches[r] = Append(@, FALSE), !.pc[r] = "openFetch"]
  ELSE IF vaultLower \in GATED_VAULTS
  THEN IF reason = NoReason
       THEN Return(M, r, Error("Reason is REQUIRED for gated vault items"))
       ELSE IF matchesStandingApproval(parsed.item, reason) # 0
       THEN [audit_log(M, Audit("read", "standing_approval", Null, uri))
               EXCEPT !.fetches[r] = Append(@, TRUE), !.pc[r] = "standingFetch"]
       ELSE IF getCachedValue(M, uri) # Null
       THEN Return(audit_log(M, Audit("read", "cache_hit", Null, uri)), r,
                   Value(getCachedValue(M, uri)))
       ELSE SendLoop(
              audit_log([getCachedState(M, uri) EXCEPT !.requestId[r] = id],
                        Audit("request", "pending", id, uri)),
              r, 1)
  ELSE Return(M, r, Error("Vault is not configured as open or gated"))

\* Mutant: ping and status are audited like reads.
handleRequest_AuditsPing(M, r, request, id) ==
  CASE request.action = "read" -> handleRead(M, r, request, id)
    [] request.action = "ping" ->
         Return(audit_log(M, Audit("ping", "", Null, NoUri)), r,
                Resp("ok", "ping", Cardinality({i \in Ids : M.pendingRequests[i] # 0})))
    [] request.action = "status" ->
         Return(audit_log(M, Audit("status", "", Null, NoUri)), r,
                Resp("running", "status",
                     Cardinality({i \in Ids : M.pendingRequests[i] # 0})))
    [] OTHER -> Return(M, r, Error("Unknown action"))

handleRequest(M, r, request, id) ==
  CASE request.action = "read" -> handleRead(M, r, request, id)
    [] request.action = "ping" ->
         Return(M, r, Resp("ok", "ping",
                           Cardinality({i \in Ids : M.pendingRequests[i] # 0})))
    [] request.action = "status" ->
         Return(M, r, Resp("running", "status",
                           Cardinality({i \in Ids : M.pendingRequests[i] # 0})))
    [] OTHER -> Return(M, r, Error("Unknown action"))

\* The continuation of `await provider.read(...)` on each of the three paths.
\* Every successful call returns a value of its own, named after the request
\* that made the call: a cached value is then told from a fetched one.
SecretFor(r) == IF r = 1 THEN "v1" ELSE IF r = 2 THEN "v2" ELSE "v3"

\* Mutant: a failed fetch after approval is caught by the outer catch, which
\* updates every handle again and audits a timeout.
approvedFetchDone_OuterCatch(M, r, ok) ==
  LET uri == req[r].uri
      v == SecretFor(r)
      again == SelectSeq([c \in 1..Len(channels) |-> <<c, FALSE>>],
                         LAMBDA e : e[1] \in M.messageRefs[r])
  IN IF ok
     THEN Return(audit_log(setCache(M, uri, v),
                           Audit("read", "approved_read", M.requestId[r], uri)),
                 r, Value(v))
     ELSE Return(audit_log([M EXCEPT !.updates[r] = @ \o again],
                           Audit("timeout", "", M.requestId[r], uri)),
                 r, Error("provider failure"))

\* Mutant: a failed fetch after approval leaves an empty entry in the cache.
approvedFetchDone_CachesFailure(M, r, ok) ==
  LET uri == req[r].uri
      v == SecretFor(r)
  IN IF ok
     THEN Return(audit_log(setCache(M, uri, v),
                           Audit("read", "approved_read", M.requestId[r], uri)),
                 r, Value(v))
     ELSE Return(audit_log(setCache(M, uri, ""),
                           Audit("read_error", "", M.requestId[r], uri)), r,
                 Error("provider failure"))

\* The continuation of `await provider.read(uri, {useServiceAccount: true})`
\* after an approval.
approvedFetchDone(M, r, ok) ==
  LET uri == req[r].uri
      v == SecretFor(r)
  IN IF ok
     THEN Return(audit_log(setCache(M, uri, v),
                           Audit("read", "approved_read", M.requestId[r], uri)),
                 r, Value(v))
     ELSE Return(audit_log(M, Audit("read_error", "", M.requestId[r], uri)), r,
                 Error("provider failure"))

\* Mutant: a value fetched under a standing rule is cached too.
fetchDone_CachesStanding(M, r, ok) ==
  LET uri == req[r].uri
      v == SecretFor(r)
  IN
  CASE M.pc[r] = "openFetch" ->
         IF ok THEN Return(M, r, Value(v))
         ELSE Return(audit_log(M, Audit("read_error", "", Null, uri)), r,
                     Error("provider failure"))
    [] M.pc[r] = "standingFetch" ->
         IF ok
         THEN Return(audit_log(setCache(M, uri, v),
                               Audit("read", "standing_approved_read", Null, uri)),
                     r, Value(v))
         ELSE Return(audit_log(M, Audit("read_error", "", Null, uri)), r,
                     Error("provider failure"))
    [] OTHER -> approvedFetchDone(M, r, ok)

\* The continuation of `await provider.read(...)` on each of the three paths.
fetchDone(M, r, ok) ==
  LET uri == req[r].uri
      v == SecretFor(r)
  IN
  CASE M.pc[r] = "openFetch" ->
         IF ok THEN Return(M, r, Value(v))
         ELSE Return(audit_log(M, Audit("read_error", "", Null, uri)), r,
                     Error("provider failure"))
    [] M.pc[r] = "standingFetch" ->
         IF ok
         THEN Return(audit_log(M, Audit("read", "standing_approved_read", Null, uri)),
                     r, Value(v))
         ELSE Return(audit_log(M, Audit("read_error", "", Null, uri)), r,
                     Error("provider failure"))
    [] OTHER -> approvedFetchDone(M, r, ok)

\* ------------------------------------------------------------- shutdown
RECURSIVE ResolveAll(_, _)
ResolveAll(M, S) ==
  IF S = {} THEN M
  ELSE LET id == CHOOSE i \in S : TRUE
           r == M.pendingRequests[id]
       IN ResolveAll(IF r = 0 THEN M ELSE Settle(cleanup(M, id), r, "false"),
                     S \ {id})

\* Mutant: the registry is cleared and the files removed, but the entries
\* are neither cleaned up nor resolved.
shutdown_OnlyClears(M) ==
  [audit_log(M, Audit("daemon_stop", "", Null, NoUri))
     EXCEPT !.pendingRequests = [i \in Ids |-> 0], !.files = {}]

shutdown(M) ==
  [ResolveAll(audit_log(M, Audit("daemon_stop", "", Null, NoUri)), Ids)
     EXCEPT !.files = {}]

\* ================================================================ actions
Idle == ~halted /\ micro = <<>> /\ ~inChunk

\* What crypto.randomBytes(8).toString('hex') may return: any id.  Ids never
\* drawn before are interchangeable, so the least of them stands for all.
Minted == {requestId[r] : r \in Reqs} \ {Null}
generateRequestId ==
  Minted \cup {IdOrder[i] : i \in {j \in 1..Len(IdOrder) :
                 /\ IdOrder[j] \notin Minted
                 /\ \A k \in 1..(j - 1) : IdOrder[k] \in Minted}}

\* SocketServer._onConnection: one line of the data handler's while loop.
Receive(line, more, id) ==
  /\ ~halted /\ connOpen /\ nreq < MaxReq
  /\ micro = <<>> \/ inChunk
  /\ more => nreq + 1 < MaxReq
  /\ nreq' = nreq + 1
  /\ req' = [req EXCEPT ![nreq + 1] = line]
  /\ inChunk' = more
  /\ IF line.kind = "empty"
     THEN Commit([Cur EXCEPT !.pc[nreq + 1] = "done"])
     ELSE IF line.kind = "malformed"
     THEN Commit([Cur EXCEPT !.out = Append(@, <<nreq + 1, Error("Invalid JSON")>>),
                             !.pc[nreq + 1] = "done"])
     ELSE Commit(handleRequest(Cur, nreq + 1, line, id))
  /\ UNCHANGED <<mvars, connOpen, config, halted, prompts>>

\* .then(result => conn.write(...)) of _onConnection.
WriteResponse ==
  /\ ~halted /\ ~inChunk /\ micro # <<>>
  /\ pc[Head(micro)] = "respond"
  /\ Commit([Cur EXCEPT !.out = IF connOpen
                                 THEN Append(@, <<Head(micro), result[Head(micro)]>>)
                                 ELSE @,
                        !.pc[Head(micro)] = "done",
                        !.micro = Tail(@)])
  /\ UNCHANGED <<mvars, connOpen, config, halted, nreq, req, inChunk, prompts>>

\* The continuation of `await waitForApproval(requestId)`.
Resume ==
  /\ ~halted /\ ~inChunk /\ micro # <<>>
  /\ pc[Head(micro)] = "waiting"
  /\ Commit(UpdateLoop([Cur EXCEPT !.micro = Tail(@)], Head(micro), 1))
  /\ UNCHANGED <<mvars, connOpen, config, halted, nreq, req, inChunk, prompts>>

\* channel.sendApprovalRequest settles: a message ref, or an exception.
SendDone(r, ok) ==
  /\ Idle /\ pc[r] = "sending"
  /\ prompts' = IF ok THEN prompts \cup {[req |-> r, chan |-> chanIdx[r],
                                            id |-> requestId[r]]}
                 ELSE prompts
  /\ Commit(SendLoop(
       IF ok THEN [Cur EXCEPT !.messageRefs[r] = @ \cup {chanIdx[r]}]
       ELSE audit_log(Cur, Audit("channel_error", channels[chanIdx[r]],
                                 requestId[r], NoUri)),
       r, chanIdx[r] + 1))
  /\ UNCHANGED <<mvars, connOpen, config, halted, nreq, req, inChunk>>

\* channel.updateApprovalMessage settles; a failure is swallowed.
UpdateDone(r) ==
  /\ Idle /\ pc[r] = "updating"
  /\ Commit(UpdateLoop(Cur, r, chanIdx[r] + 1))
  /\ UNCHANGED <<mvars, connOpen, config, halted, nreq, req, inChunk, prompts>>

\* provider.read settles with a value or an exception.
FetchDone(r, ok) ==
  /\ Idle /\ pc[r] \in {"openFetch", "standingFetch", "fetching"}
  /\ Commit(fetchDone(Cur, r, ok))
  /\ UNCHANGED <<mvars, connOpen, config, halted, nreq, req, inChunk, prompts>>

\* ------------------------------------------------------ HTTP callback server
HttpOk(resolved) == [status |-> 200, ok |-> TRUE, resolved |-> resolved, error |-> ""]
HttpError(status, msg) == [status |-> status, ok |-> FALSE, resolved |-> FALSE, error |-> msg]

\* Mutant: a callback for an id without entry is audited.
callback_AuditsUnknown(M, body) ==
  IF body.requestId = Null
  THEN [state |-> M, res |-> HttpError(400, "Missing requestId")]
  ELSE [state |-> IF resolveApprovalRet(M, body.requestId)
                  THEN resolveApproval(M, body.requestId, body.approved)
                  ELSE audit_log(M, Audit("callback", "unknown", body.requestId, NoUri)),
        res |-> HttpOk(resolveApprovalRet(M, body.requestId))]

\* POST /callback: the state after the handler and the response it sends.
callback(M, body) ==
  IF body.requestId = Null
  THEN [state |-> M, res |-> HttpError(400, "Missing requestId")]
  ELSE [state |-> resolveApproval(M, body.requestId, body.approved),
        res |-> HttpOk(resolveApprovalRet(M, body.requestId))]

\* POST /channel-callback: callback_data is ag:<verb>:<id>.
channelCallback(M, data) ==
  IF data.verb \notin {"approve", "deny"} \/ data.id = Null
  THEN [state |-> M, res |-> HttpError(400, "Invalid callback_data")]
  ELSE [state |-> resolveApproval(M, data.id,
                                  IF data.verb = "approve" THEN "true" ELSE "false"),
        res |-> HttpOk(resolveApprovalRet(M, data.id))]

\* GET /health: the state after the handler and the response it sends.
health(M) ==
  [state |-> M,
   res |-> [status |-> 200, st |-> "ok",
            pending |-> Cardinality({i \in Ids : M.pendingRequests[i] # 0})]]

\* POST /callback with body {requestId: id, approved}.
Callback(id, approved) ==
  /\ Idle
  /\ Commit(callback(Cur, [requestId |-> id, approved |-> approved]).state)
  /\ UNCHANGED <<mvars, connOpen, config, halted, nreq, req, inChunk, prompts>>

\* POST /channel-callback with body {callback_data: "ag:<verb>:<id>"}.
ChannelCallback(verb, id) ==
  /\ Idle
  /\ Commit(channelCallback(Cur, [verb |-> verb, id |-> id]).state)
  /\ UNCHANGED <<mvars, connOpen, config, halted, nreq, req, inChunk, prompts>>

\* GET /health answers from the registry and changes nothing.
Health ==
  /\ Idle
  /\ Commit(health(Cur).state)
  /\ UNCHANGED <<mvars, connOpen, config, halted, nreq, req, inChunk, prompts>>

\* Mutant: closing the connection cancels what the client was waiting for.
Disconnect_Cancels ==
  /\ Idle /\ connOpen
  /\ \E r \in Reqs : pc[r] \notin {"idle", "done"}
  /\ connOpen' = FALSE
  /\ Commit(ResolveAll(Cur, Ids))
  /\ UNCHANGED <<mvars, config, halted, nreq, req, inChunk, prompts>>

\* The client closes its connection while a request of it is being
\* handled (with none outstanding, closing is the same as sending nothing
\* more).  The server has no close handler; its error handler is empty.
Disconnect ==
  /\ Idle /\ connOpen
  /\ \E r \in Reqs : pc[r] \notin {"idle", "done"}
  /\ connOpen' = FALSE
  /\ UNCHANGED <<mvars, config, halted, nreq, req, inChunk, prompts, dvars>>

\* An external writer answers a prompt by putting <id>.json into PENDING_DIR
\* while the request that sent the prompt is still being handled; the
\* directory holds one file at a time.
DropFile(id, content) ==
  /\ Idle /\ dropDir[id] \in {"none", "bad"} /\ content # dropDir[id]
  /\ \E p \in prompts : p.id = id /\ pc[p.req] \in {"sending", "waiting"}
  /\ \A i \in Ids \ {id} : dropDir[i] = "none"
  /\ dropDir' = [dropDir EXCEPT ![id] = content]
  /\ UNCHANGED <<mvars, connOpen, config, halted, nreq, req, inChunk, prompts,
                 out, micro, pc, result, requestId, messageRefs, chanIdx, promise,
                 settleCalls, pendingRequests, timer, pollInterval, cache,
                 auditLog, updates, fetches, files, stderr, auditFails>>

\* Mutant: the poller does not clear its own interval.
pollOnce_KeepsPolling(M, r) ==
  LET id == M.requestId[r] IN
  IF M.dropDir[id] \in {"none", "bad"} THEN M
  ELSE resolveApproval([M EXCEPT !.dropDir[id] = "none"], id, M.dropDir[id])

\* Mutant: a file that cannot be parsed is unlinked.
pollOnce_UnlinksMalformed(M, r) ==
  LET id == M.requestId[r] IN
  IF M.dropDir[id] = "none" THEN M
  ELSE IF M.dropDir[id] = "bad" THEN [M EXCEPT !.dropDir[id] = "none"]
  ELSE resolveApproval([M EXCEPT !.dropDir[id] = "none", !.pollInterval[r] = FALSE],
                       id, M.dropDir[id])

\* One run of the setInterval callback of waitForApproval that finds a file.
pollOnce(M, r) ==
  LET id == M.requestId[r] IN
  IF M.dropDir[id] \in {"none", "bad"} THEN M
  ELSE resolveApproval([M EXCEPT !.dropDir[id] = "none", !.pollInterval[r] = FALSE],
                       id, M.dropDir[id])

Poll(r) ==
  /\ Idle /\ pollInterval[r] /\ dropDir[requestId[r]] # "none"
  /\ Commit(pollOnce(Cur, r))
  /\ UNCHANGED <<mvars, connOpen, config, halted, nreq, req, inChunk, prompts>>

\* Mutant: the timeout rejects without cleanup, the entry stays.
timerFires_NoCleanup(M, r) ==
  Settle([M EXCEPT !.timer[r] = 0 - 1], r, "rejected")

\* The setTimeout callback of waitForApproval.
timerFires(M, r) ==
  Settle([cleanup(M, M.requestId[r]) EXCEPT !.timer[r] = 0 - 1], r, "rejected")

Timer(r) ==
  /\ Idle /\ timer[r] = 0
  /\ Commit(timerFires(Cur, r))
  /\ UNCHANGED <<mvars, connOpen, config, halted, nreq, req, inChunk, prompts>>

\* SIGINT / SIGTERM: resolve everything pending, then process.exit(0).
Shutdown ==
  /\ Idle
  /\ Commit(shutdown(Cur))
  /\ halted' = TRUE
  /\ UNCHANGED <<mvars, connOpen, config, nreq, req, inChunk, prompts>>

\* One tick of time passes: every running timer and every cache entry is
\* one tick nearer to its deadline or expiry.
Tick ==
  /\ Idle
  /\ (\E r \in Reqs : timer[r] > 0) \/ (\E u \in UriSet : cache[u].expiresAt >= 0)
  /\ timer' = [r \in Reqs |-> IF timer[r] > 0 THEN timer[r] - 1 ELSE timer[r]]
  /\ cache' = [u \in UriSet |->
                IF cache[u].expiresAt >= 0
                THEN [cache[u] EXCEPT !.expiresAt = @ - 1] ELSE cache[u]]
  /\ UNCHANGED <<mvars, connOpen, config, halted, nreq, req, inChunk, prompts,
                 out, micro, pc, result, requestId, messageRefs, chanIdx, promise,
                 settleCalls, pendingRequests, pollInterval, dropDir,
                 auditLog, updates, fetches, files, stderr, auditFails>>

\* The bodies POSTed to /callback and /channel-callback: a verdict on any
\* id, a body without requestId, callback_data that is not ag:<verb>:<id>.
CallbackBodies ==
  [requestId : Ids, approved : {"true", "false"}]
    \cup {[requestId |-> Null, approved |-> "true"]}
CallbackData ==
  [verb : {"approve", "deny"}, id : Ids] \cup {[verb |-> "bogus", id |-> Null]}

Next ==
  \/ \E line \in Lines, more \in BOOLEAN, id \in generateRequestId : Receive(line, more, id)
  \/ WriteResponse
  \/ Resume
  \/ \E r \in Reqs, ok \in BOOLEAN : SendDone(r, ok)
  \/ \E r \in Reqs : UpdateDone(r)
  \/ \E r \in Reqs, ok \in BOOLEAN : FetchDone(r, ok)
  \/ \E body \in CallbackBodies : Callback(body.requestId, body.approved)
  \/ \E data \in CallbackData : ChannelCallback(data.verb, data.id)
  \/ Health
  \/ \E id \in Ids, content \in {"bad", "true", "false"} : DropFile(id, content)
  \/ \E r \in Reqs : Poll(r)
  \/ \E r \in Reqs : Timer(r)
  \/ Shutdown
  \/ Tick

Spec == Init /\ [][Next]_vars

\* The broker under configurations and requests that spell the containers
\* in several cases; approvals come by callback.
ClassifyInit ==
  /\ config \in {c \in ClassifyConfigs : validate(InMs(c)) = {}}
  /\ DaemonInit
  /\ argItem = "" /\ argReason = NoReason /\ standing = 0 - 1
  /\ errors = NotCalled

ClassifyNext ==
  \/ \E line \in ClassifyLines, more \in BOOLEAN, id \in generateRequestId :
       Receive(line, more, id)
  \/ WriteResponse
  \/ Resume
  \/ \E r \in Reqs, ok \in BOOLEAN : SendDone(r, ok)
  \/ \E r \in Reqs : UpdateDone(r)
  \/ \E r \in Reqs, ok \in BOOLEAN : FetchDone(r, ok)
  \/ \E body \in CallbackBodies : Callback(body.requestId, body.approved)

ClassifySpec == ClassifyInit /\ [][ClassifyNext]_vars

\* The same broker with a client that may close its connection early.
ConnNext == Next \/ Disconnect

ConnSpec == Init /\ [][ConnNext]_vars

\* An external writer puts <id>.json into PENDING_DIR for any id, minted or
\* not, pending or not.
DropAny(id, content) ==
  /\ Idle /\ dropDir[id] \in {"none", "bad"} /\ content # dropDir[id]
  /\ \A i \in Ids \ {id} : dropDir[i] = "none"
  /\ dropDir' = [dropDir EXCEPT ![id] = content]
  /\ UNCHANGED <<mvars, connOpen, config, halted, nreq, req, inChunk, prompts,
                 out, micro, pc, result, requestId, messageRefs, chanIdx, promise,
                 settleCalls, pendingRequests, timer, pollInterval, cache,
                 auditLog, updates, fetches, files, stderr, auditFails>>

\* The broker with one working channel and no cache, and writers that may
\* drop a file for any id at any time.
DropInit == Init /\ config.channels = <<"telegram">> /\ config.cacheTTL = 0

DropNext == Next \/ \E id \in Ids, content \in {"bad", "true", "false"} : DropAny(id, content)

DropSpec == DropInit /\ [][DropNext]_vars

\* The broker with one working channel and no cache, answered by bodies and
\* files whose approved field holds any JavaScript value.
JsNext ==
  \/ Next
  \/ \E id \in Ids, approved \in JsValues : Callback(id, approved)
  \/ \E id \in Ids, approved \in JsValues : DropFile(id, approved)

JsSpec == DropInit /\ [][JsNext]_vars

\* The audit log becomes unwritable (disk full, file removed, permissions)
\* or writable again.
AuditDisk ==
  /\ Idle
  /\ auditFails' = ~auditFails
  /\ UNCHANGED <<mvars, connOpen, config, halted, nreq, req, inChunk, prompts,
                 out, micro, pc, result, requestId, messageRefs, chanIdx, promise,
                 settleCalls, pendingRequests, timer, pollInterval, dropDir, cache,
                 auditLog, updates, fetches, files, stderr>>

\* The broker with one working channel and no cache, on a disk where
\* appending to the audit log may fail.
AuditNext == Next \/ AuditDisk

AuditSpec == DropInit /\ [][AuditNext]_vars

\* ------------------------------------------------------------- startup
\* process.exit(code), or the default disposition of a signal: the process
\* ends there, nothing else runs.
Exit == /\ halted' = TRUE /\ boot' = [phase |-> "exited", k |-> 0]

\* The tail of main() up to `await socketServer.start()`: the PID file is
\* written (a failure is only warned about) and the socket server is told
\* to listen.
WritePidAndListen(pidWritten) ==
  /\ boot' = [phase |-> "socket", k |-> 0]
  /\ Commit([Cur EXCEPT !.files = IF pidWritten THEN @ \cup {"pid"} ELSE @])
  /\ halted' = halted

\* The continuation of `await provider.validate()`.
ProviderValidated(ok, pidWritten) ==
  /\ ~halted /\ boot.phase = "provider"
  /\ IF ~ok THEN Exit /\ Commit(Cur)
     ELSE IF Len(channels) > 0
     THEN boot' = [phase |-> "channels", k |-> 1] /\ Commit(Cur) /\ halted' = halted
     ELSE WritePidAndListen(pidWritten)
  /\ UNCHANGED <<argItem, argReason, standing, errors, connOpen, config, nreq, req,
                 inChunk, prompts>>

\* The continuation of `await channel.validate()` for the k-th channel.
ChannelValidated(ok, pidWritten) ==
  /\ ~halted /\ boot.phase = "channels"
  /\ IF ~ok THEN Exit /\ Commit(Cur)
     ELSE IF boot.k < Len(channels)
     THEN boot' = [boot EXCEPT !.k = @ + 1] /\ Commit(Cur) /\ halted' = halted
     ELSE WritePidAndListen(pidWritten)
  /\ UNCHANGED <<argItem, argReason, standing, errors, connOpen, config, nreq, req,
                 inChunk, prompts>>

\* The continuation of `await socketServer.start()`: on success the HTTP
\* server is started, daemon_start is audited and the signal handlers are
\* registered; a rejection goes to main().catch, which exits with code 1.
SocketStarted(ok) ==
  /\ ~halted /\ boot.phase = "socket"
  /\ IF ok
     THEN /\ boot' = Ready /\ halted' = halted
          /\ Commit(audit_log([Cur EXCEPT !.files = @ \cup {"socket"}],
                              Audit("daemon_start", "", Null, NoUri)))
     ELSE Exit /\ Commit(Cur)
  /\ UNCHANGED <<argItem, argReason, standing, errors, connOpen, config, nreq, req,
                 inChunk, prompts>>

\* SIGINT or SIGTERM before main() has registered its handlers.
SignalBeforeReady ==
  /\ ~halted /\ boot.phase \in {"provider", "channels", "socket"}
  /\ Exit /\ Commit(Cur)
  /\ UNCHANGED <<argItem, argReason, standing, errors, connOpen, config, nreq, req,
                 inChunk, prompts>>

\* The process from the call of main(): nothing acquired yet.
StartInit ==
  /\ config \in {c \in Configs : validate(InMs(c)) = {}}
  /\ config.cacheTTL = 0
  /\ ModuleInit
  /\ files = {}
  /\ boot = [phase |-> "provider", k |-> 0]
  /\ argItem = "" /\ argReason = NoReason /\ standing = 0 - 1
  /\ errors = NotCalled

StartNext ==
  \/ \E ok \in BOOLEAN, pidWritten \in BOOLEAN : ProviderValidated(ok, pidWritten)
  \/ \E ok \in BOOLEAN, pidWritten \in BOOLEAN : ChannelValidated(ok, pidWritten)
  \/ \E ok \in BOOLEAN : SocketStarted(ok)
  \/ SignalBeforeReady
  \/ boot = Ready /\ Next

StartSpec == StartInit /\ [][StartNext]_vars

\* The event loop keeps running: queued microtasks run, the data handler's
\* loop goes through the lines of its chunk, time passes and a due timer
\* fires.
FairSpec ==
  /\ Spec
  /\ WF_vars(WriteResponse) /\ WF_vars(Resume)
  /\ WF_vars(inChunk /\ \E line \in Lines, more \in BOOLEAN, id \in generateRequestId :
                          Receive(line, more, id))
  /\ WF_vars(Tick)
  /\ \A r \in Reqs : WF_vars(Timer(r))

\* ----------------------------------- matchesStandingApproval on its own
\* The matcher applied to rule lists, items and reasons that the requests
\* above do not exercise.
foo == <<"f", "o", "o">>
FooStar == foo \o <<"*">>
MatchReasons ==
  {NoReason, foo, foo \o <<"b", "a", "r">>, foo \o <<":", "x">>, <<"f", "o">>,
   <<"b", "a", "r">> \o foo, FooStar}
MatchItems == {"api-key", "db-pass"}
PrefixRule == [item |-> "api-key", reasonMatch |-> FooStar, note |-> "prefix"]
ExactRule == [item |-> "api-key", reasonMatch |-> foo, note |-> "exact"]
OtherRule == [item |-> "db-pass", reasonMatch |-> FooStar, note |-> "other"]
MatchRuleLists ==
  {<<>>, <<PrefixRule>>, <<ExactRule>>, <<PrefixRule, ExactRule>>,
   <<ExactRule, PrefixRule>>, <<OtherRule, PrefixRule>>}
MatchConfigs ==
  {[cacheTTL |-> 1, approvalTimeoutMs |-> 1, channels |-> <<"telegram">>,
    openVaults |-> {"Pub"}, gatedVaults |-> {"Sec"}, standingApprovals |-> rules] :
     rules \in MatchRuleLists}

MatchInit ==
  /\ config \in MatchConfigs
  /\ DaemonInit
  /\ argItem \in MatchItems /\ argReason \in MatchReasons /\ standing = 0 - 1
  /\ errors = NotCalled

\* const standing = matchesStandingApproval(parsed.item, reason)
Match ==
  /\ standing = 0 - 1
  /\ standing' = matchesStandingApproval(argItem, argReason)
  /\ UNCHANGED <<config, halted, nreq, req, inChunk, prompts, dvars, argItem, argReason,
                 errors, connOpen, boot>>

MatchNext == Match

MatchSpec == MatchInit /\ [][MatchNext]_vars

\* ------------------------------------------------- validate on its own
\* validate applied to configurations that loadConfig may hand it.
NoItemRule == [item |-> "", reasonMatch |-> StarPat, note |-> "no item"]
NoMatchRule == [item |-> "cron-key", reasonMatch |-> <<>>, note |-> "no reasonMatch"]
ValidateRuleLists ==
  {<<>>, <<CronRule>>, <<NoItemRule>>, <<NoMatchRule>>, <<CronRule, NoItemRule>>}
ValidateTimeouts ==
  {Num(MinApprovalTimeoutMs - 1), Num(MinApprovalTimeoutMs), Num(30 * TickMs),
   Str(2 * TickMs)}
ValidateConfigs ==
  [cacheTTL : {30 * TickMs},
   approvalTimeoutMs : ValidateTimeouts,
   channels : {<<>>, <<"telegram">>, <<"slack">>},
   openVaults : {{}, {"Pub"}},
   gatedVaults : {{}, {"Sec"}},
   standingApprovals : ValidateRuleLists]

ValidateInit ==
  /\ config \in ValidateConfigs
  /\ DaemonInit
  /\ argItem = "" /\ argReason = NoReason /\ standing = 0 - 1
  /\ errors = NotCalled

\* loadConfig: validate(config)
Validate ==
  /\ errors = NotCalled
  /\ errors' = validate(config)
  /\ UNCHANGED <<config, halted, nreq, req, inChunk, prompts, dvars, argItem, argReason,
                 standing, connOpen, boot>>

ValidateNext == Validate

ValidateSpec == ValidateInit /\ [][ValidateNext]_vars

\* ================================================================ claims
GatedOnly(line) ==
  /\ line.action = "read" /\ line.uri # NoUri /\ parseUri(line.uri) # NullParsed
  /\ toLowerCase(parseUri(line.uri).vault) \in GATED_VAULTS \ OPEN_VAULTS

Standing(line) == matchesStandingApproval(parseUri(line.uri).item, line.reason) # 0

Settled == {"true", "false", "rejected"}

\* The step resolves (or tries to resolve) the id by an approving ingress.
ApprovingStep(id) ==
  \/ Callback(id, "true")
  \/ ChannelCallback("approve", id)
  \/ \E q \in Reqs : requestId[q] = id /\ dropDir[id] = "true" /\ Poll(q)

TerminalEvents(id) ==
  {i \in 1..Len(auditLog) :
     /\ auditLog[i].requestId = id
     /\ auditLog[i].action \in {"approved", "denied", "timeout", "shutdown"}}

Responded(r) == \E i \in 1..Len(out) : out[i][1] = r

\* C1: a read of a gated (and not open) reference returns a value only if a
\* standing rule matched, or a fresh cache entry for the reference existed
\* when it was received, or the id minted for it was resolved with
\* approved = true by a callback or a drop file naming that id; no denial,
\* timeout, shutdown or failed fan-out yields a value.
C1_ValueOnlyWhenAuthorised ==
  /\ [][\A r \in Reqs :
          (result'[r].t = "value" /\ result[r].t # "value" /\ GatedOnly(req'[r])) =>
            \/ Standing(req'[r])
            \/ /\ pc[r] = "idle"
               /\ cache[req'[r].uri].expiresAt >= 0
               /\ cache[req'[r].uri].value = result'[r].v
            \/ promise[r] = "true"]_vars
  /\ [][\A r \in Reqs :
          (promise'[r] = "true" /\ promise[r] # "true") =>
            /\ pendingRequests[requestId[r]] = r
            /\ ApprovingStep(requestId[r])]_vars

C1_Witness ==
  \E r \in Reqs :
    /\ result[r].t = "value" /\ GatedOnly(req[r]) /\ ~Standing(req[r])
    /\ promise[r] = "true" /\ fetches[r] = <<TRUE>>

\* C2: the promise of a pending request is settled by at most one call of
\* resolve or reject, whatever the order of timer, callbacks and poller; the
\* first one decides, a settled outcome never changes, and an attempt that
\* finds no entry returns false and changes nothing.
C2_AtMostOneResolution ==
  /\ [](\A r \in Reqs : settleCalls[r] <= 1)
  /\ [](\A id \in Ids, approved \in {"true", "false"} :
          pendingRequests[id] = 0 =>
            ~resolveApprovalRet(Cur, id) /\ resolveApproval(Cur, id, approved) = Cur)
  /\ [][\A r \in Reqs : promise[r] \in Settled => promise'[r] = promise[r]]_vars

C2_Witness ==
  \E r \in Reqs :
    /\ settleCalls[r] = 1 /\ promise[r] = "true" /\ pc[r] = "done"
    /\ pendingRequests[requestId[r]] = 0 /\ timer[r] = 0 - 1 /\ ~pollInterval[r]

\* C3: once the broker has stopped or the request has ended, every id that
\* was registered has exactly one terminal audit event (approved, denied,
\* timeout or shutdown).
C3_ExactlyOneTerminalEvent ==
  \A r \in Reqs :
    (promise[r] # "none" /\ (halted \/ pc[r] \in {"respond", "done"})) =>
      Cardinality(TerminalEvents(requestId[r])) = 1

\* C4: from the moment a channel has received the prompt of a request until
\* its timeout, a POST /callback {requestId: id, approved: true} resolves
\* that request as approved.
C4_CallbackAfterPromptResolves ==
  \A p \in prompts :
    (~halted /\ pc[p.req] \in {"sending", "waiting"}
       /\ promise[p.req] \in {"none", "pending"}) =>
      /\ resolveApprovalRet(Cur, p.id)
      /\ resolveApproval(Cur, p.id, "true").promise[p.req] = "true"

\* C5: the responses on the connection are written in the order in which
\* their request lines were received.
C5_ResponsesInRequestOrder ==
  \A i, j \in 1..Len(out) : i < j => out[i][1] < out[j][1]

\* C6: no two requests that are awaiting approval at the same time carry the
\* same id, so a registration never replaces the entry of another waiter.
C6_PendingIdsUnique ==
  \A r1, r2 \in Reqs :
    (r1 # r2 /\ promise[r1] = "pending" /\ promise[r2] = "pending") =>
      requestId[r1] # requestId[r2]

\* The step is a resolution of the id by callback, drop file or timeout.
ResolutionStep(id) ==
  \/ \E approved \in {"true", "false"} : Callback(id, approved)
  \/ \E verb \in {"approve", "deny"} : ChannelCallback(verb, id)
  \/ \E q \in Reqs : requestId[q] = id /\ (Poll(q) \/ Timer(q))

\* C7: resolving one id leaves every other registry entry as it is, with
\* its timer and poller, and does not wake or answer its request; a request
\* whose promise is pending has no response.
C7_ResolutionWakesOnlyItsRequest ==
  /\ [][\A x \in Ids : ResolutionStep(x) =>
          \A y \in Ids \ {x} :
            pendingRequests[y] # 0 =>
              LET q == pendingRequests[y] IN
                /\ pendingRequests'[y] = q
                /\ timer'[q] = timer[q] /\ pollInterval'[q] = pollInterval[q]
                /\ promise'[q] = promise[q] /\ pc'[q] = pc[q]
                /\ result'[q] = result[q]
                /\ \A i \in 1..Len(micro') : micro'[i] # q
                /\ dropDir'[y] = dropDir[y]]_vars
  /\ [](\A r \in Reqs : promise[r] = "pending" => result[r] = NoResp /\ ~Responded(r))

C7_Witness ==
  \E r1, r2 \in Reqs :
    /\ r1 # r2 /\ req[r1].uri = req[r2].uri /\ requestId[r1] # requestId[r2]
    /\ promise[r1] \in Settled /\ result[r1] # NoResp
    /\ promise[r2] = "pending" /\ pendingRequests[requestId[r2]] = r2
    /\ timer[r2] >= 0 /\ pollInterval[r2]

\* C8: an approved fetch stores the value with the configured lifetime, and a
\* later read of that reference (reason given, no standing rule) received
\* before the entry expires returns the cached value, audits cache_hit,
\* prompts nobody, registers nothing and does not call the provider.
C8_CacheHitServesWithoutPrompt ==
  /\ [][\A r \in Reqs :
          (pc[r] = "fetching" /\ FetchDone(r, TRUE) /\ config.cacheTTL > 0) =>
            cache'[req[r].uri] = [value |-> SecretFor(r), expiresAt |-> config.cacheTTL]]_vars
  /\ [][\A r \in Reqs :
          (pc[r] = "idle" /\ pc'[r] # "idle" /\ GatedOnly(req'[r])
             /\ req'[r].reason # NoReason /\ ~Standing(req'[r])
             /\ cache[req'[r].uri].expiresAt >= 0) =>
            /\ result'[r] = Value(cache[req'[r].uri].value)
            /\ auditLog' = Append(auditLog, Audit("read", "cache_hit", Null, req'[r].uri))
            /\ prompts' = prompts /\ pendingRequests' = pendingRequests
            /\ requestId'[r] = Null /\ promise'[r] = "none"
            /\ fetches'[r] = <<>> /\ pc'[r] = "respond"]_vars

C8_Witness ==
  \E r1, r2 \in Reqs :
    /\ r1 < r2 /\ req[r1].uri = req[r2].uri
    /\ promise[r1] = "true" /\ result[r1] = Value(SecretFor(r1))
    /\ result[r2] = Value(SecretFor(r1)) /\ fetches[r2] = <<>>
    /\ requestId[r2] = Null /\ pc[r2] = "done"

CacheHits == {i \in 1..Len(auditLog) : auditLog[i].result = "cache_hit"}

\* C9: with a cache TTL of zero or less the cache stays empty and no
\* cache_hit is audited, so every gated read that got a value without a
\* standing rule was approved under an id of its own.
C9_NoCacheWhenTTLNotPositive ==
  config.cacheTTL <= 0 =>
    /\ \A u \in UriSet : cache[u] = NoEntry
    /\ CacheHits = {}
    /\ \A r \in Reqs :
         (result[r].t = "value" /\ GatedOnly(req[r]) /\ ~Standing(req[r])) =>
           (requestId[r] # Null /\ promise[r] = "true" /\ fetches[r] = <<TRUE>>)

C9_Witness ==
  /\ config.cacheTTL <= 0
  /\ \E r1, r2 \in Reqs :
       /\ r1 < r2 /\ req[r1].uri = req[r2].uri
       /\ result[r1].t = "value" /\ promise[r1] = "true" /\ pc[r1] = "done"
       /\ requestId[r2] # Null /\ promise[r2] = "pending"

UpdatesOf(r, c) == {i \in 1..Len(updates[r]) : updates[r][i][1] = c}

\* C10: for each channel whose prompt succeeded, at most one
\* updateApprovalMessage call is issued over the life of the request, and
\* none for a channel whose prompt failed.
C10_AtMostOneUpdatePerHandle ==
  \A r \in Reqs : \A c \in 1..Len(channels) :
    /\ Cardinality(UpdatesOf(r, c)) <= 1
    /\ UpdatesOf(r, c) # {} => c \in messageRefs[r]

C10_Witness ==
  \E r \in Reqs :
    /\ pc[r] = "done" /\ promise[r] = "true" /\ result[r] = Error("provider failure")
    /\ messageRefs[r] = {1, 2} /\ Len(updates[r]) = 2

WellFormed == {"true", "false"}

\* C11: when the poller of a request finds a well-formed drop file for a
\* pending id, the file is unlinked and the poller stopped before
\* resolveApproval is called; after the scan the file is gone, the entry is
\* deleted, no poller of that scan or of the entry runs on, and the waiter
\* is resolved from the file's content by the one and only call of resolve.
C11_DropFileConsumedOnce ==
  /\ [](\A r \in Reqs :
          (pollInterval[r] /\ dropDir[requestId[r]] \in WellFormed) =>
            pollOnce(Cur, r) =
              resolveApproval([Cur EXCEPT !.dropDir[requestId[r]] = "none",
                                          !.pollInterval[r] = FALSE],
                              requestId[r], dropDir[requestId[r]]))
  /\ [][\A r \in Reqs :
          (Poll(r) /\ dropDir[requestId[r]] \in WellFormed
             /\ pendingRequests[requestId[r]] # 0) =>
            LET id == requestId[r]
                q == pendingRequests[id]
            IN /\ dropDir'[id] = "none"
               /\ ~pollInterval'[r] /\ ~pollInterval'[q]
               /\ pendingRequests'[id] = 0
               /\ promise[q] = "pending" /\ promise'[q] = dropDir[id]
               /\ settleCalls[q] = 0 /\ settleCalls'[q] = 1]_vars

\* The poller of r consumed a file and stopped itself while the entry of
\* the id belonged to q: only a scan leaves r without poller and with its
\* timer.
C11_Witness ==
  \E r, q \in Reqs :
    /\ r # q /\ requestId[r] = requestId[q] /\ requestId[r] # Null
    /\ promise[r] = "pending" /\ timer[r] >= 0 /\ ~pollInterval[r]
    /\ promise[q] \in WellFormed /\ settleCalls[q] = 1
    /\ dropDir[requestId[r]] = "none" /\ pendingRequests[requestId[r]] = 0

\* The step is the receipt of the line of request r.
Received(r) == pc[r] = "idle" /\ pc'[r] # "idle"

\* A read whose reference is not op://vault/item/field, or whose vault is in
\* neither list of the configuration.
Unparseable(line) ==
  /\ line.action = "read" /\ line.uri # NoUri
  /\ ~(line.uri.scheme = "op" /\ Len(line.uri.segs) >= 3)
UnknownVault(line) ==
  /\ line.action = "read" /\ line.uri # NoUri
  /\ line.uri.scheme = "op" /\ Len(line.uri.segs) >= 3
  /\ \A v \in config.openVaults \cup config.gatedVaults :
       toLowerCase(v) # toLowerCase(line.uri.segs[1])

\* The request went no further than its error: nothing prompted, fetched,
\* registered or minted for it.
NoSideEffect(r) ==
  /\ result[r].t = "error" /\ requestId[r] = Null /\ promise[r] = "none"
  /\ messageRefs[r] = {} /\ fetches[r] = <<>> /\ updates[r] = <<>>
  /\ timer[r] = 0 - 1 /\ ~pollInterval[r]
  /\ \A p \in prompts : p.req # r

\* C12: a read whose reference the provider cannot parse, and a read whose
\* vault is neither open nor gated, return an error at once and leave the
\* audit log, the cache, the registry, the channels and the provider alone.
C12_ClassificationErrorsSilent ==
  /\ [][\A r \in Reqs :
          (Received(r) /\ (Unparseable(req'[r]) \/ UnknownVault(req'[r]))) =>
            /\ result'[r] = IF Unparseable(req'[r]) THEN Error("Invalid URI")
                            ELSE Error("Vault is not configured as open or gated")
            /\ pc'[r] = "respond"
            /\ auditLog' = auditLog /\ cache' = cache /\ prompts' = prompts
            /\ pendingRequests' = pendingRequests /\ fetches' = fetches
            /\ timer' = timer /\ pollInterval' = pollInterval]_vars
  /\ [](\A r \in Reqs :
          (pc[r] # "idle" /\ (Unparseable(req[r]) \/ UnknownVault(req[r]))) =>
            /\ NoSideEffect(r)
            /\ \A i \in 1..Len(auditLog) : auditLog[i].uri # req[r].uri)

C12_Witness ==
  \E r1, r2 \in Reqs :
    /\ Unparseable(req[r1]) /\ UnknownVault(req[r2])
    /\ pc[r1] = "done" /\ pc[r2] = "done"
    /\ out = << <<r1, Error("Invalid URI")>>,
                <<r2, Error("Vault is not configured as open or gated")>> >>
    /\ auditLog = <<>>

\* A read of a vault of the open list, and of the gated list.
OpenRead(line) ==
  /\ line.action = "read" /\ line.uri.scheme = "op" /\ Len(line.uri.segs) >= 3
  /\ \E v \in config.openVaults : toLowerCase(v) = toLowerCase(line.uri.segs[1])
GatedRead(line) ==
  /\ line.action = "read" /\ line.uri.scheme = "op" /\ Len(line.uri.segs) >= 3
  /\ ~OpenRead(line)
  /\ \E v \in config.gatedVaults : toLowerCase(v) = toLowerCase(line.uri.segs[1])

\* C13: every provider.read issued for an open read is without the service
\* account and every one issued for a gated read (standing path and
\* approved path) is with useServiceAccount: true; a request issues at most
\* one, and none for anything else.
C13_ElevatedIffGated ==
  \A r \in Reqs :
    /\ Len(fetches[r]) <= 1
    /\ \A i \in 1..Len(fetches[r]) :
         /\ OpenRead(req[r]) \/ GatedRead(req[r])
         /\ OpenRead(req[r]) => fetches[r][i] = FALSE
         /\ GatedRead(req[r]) => fetches[r][i] = TRUE
         /\ GatedRead(req[r]) => (Standing(req[r]) \/ promise[r] = "true")

C13_Witness ==
  \E r1, r2 \in Reqs :
    /\ OpenRead(req[r1]) /\ fetches[r1] = <<FALSE>> /\ result[r1].t = "value"
    /\ GatedRead(req[r2]) /\ fetches[r2] = <<TRUE>> /\ result[r2].t = "value"
    /\ promise[r2] = "true"

ReasonRequired == Error("Reason is REQUIRED for gated vault items")

\* C14: a gated read with no reason (absent or empty) returns the
\* reason-required error and does nothing else: the audit log, the cache
\* (a fresh entry for the reference included, and an expired one, which a
\* lookup would delete), the registry, the channels and the provider are
\* left alone and no id is minted.
C14_ReasonRequiredSilent ==
  /\ [][\A r \in Reqs :
          (Received(r) /\ GatedRead(req'[r]) /\ req'[r].reason = NoReason) =>
            /\ result'[r] = ReasonRequired /\ pc'[r] = "respond"
            /\ auditLog' = auditLog /\ cache' = cache /\ prompts' = prompts
            /\ pendingRequests' = pendingRequests /\ fetches' = fetches
            /\ timer' = timer /\ pollInterval' = pollInterval]_vars
  /\ [](\A r \in Reqs :
          (pc[r] # "idle" /\ GatedRead(req[r]) /\ req[r].reason = NoReason) =>
            result[r] = ReasonRequired /\ NoSideEffect(r))

C14_Witness ==
  \E r1, r2 \in Reqs :
    /\ r1 < r2 /\ req[r1].uri = req[r2].uri /\ GatedRead(req[r2])
    /\ result[r1].t = "value" /\ cache[req[r2].uri].expiresAt >= 0
    /\ req[r2].reason = NoReason /\ pc[r2] = "done"
    /\ \E i \in 1..Len(out) : out[i] = <<r2, ReasonRequired>>
    /\ Len(auditLog) = 3 /\ fetches[r2] = <<>>

\* The handler of r has returned.
Returned(r) == pc[r] \in {"respond", "done"}

\* The step in which the handler of r returns after its wait.
ReturnsAfterWait(r) == pc[r] \in {"waiting", "updating"} /\ pc'[r] = "respond"

\* One updateApprovalMessage(ref, approved) per successful handle, in order.
UpdatedEachHandle(r, approved) ==
  /\ Len(updates[r]) = Cardinality(messageRefs[r])
  /\ {updates[r][i] : i \in 1..Len(updates[r])} = {<<c, approved>> : c \in messageRefs[r]}

Denied == Error("Request denied by operator")

\* C15: a deny callback for a pending id resolves its waiter with false;
\* that request then calls updateApprovalMessage(ref, false) on each
\* successful handle, audits denied for its id, returns "Request denied by
\* operator", never calls the provider, audits neither approved nor
\* approved_read, and leaves the cache as it is.
C15_DenialEndsWithoutFetch ==
  /\ [][\A id \in Ids :
          ((Callback(id, "false") \/ ChannelCallback("deny", id)) /\ pendingRequests[id] # 0) =>
            /\ promise'[pendingRequests[id]] = "false"
            /\ pendingRequests'[id] = 0]_vars
  /\ [][\A r \in Reqs :
          (promise[r] = "false" /\ ReturnsAfterWait(r)) =>
            /\ result'[r] = Denied
            /\ auditLog' = Append(auditLog, Audit("denied", "", requestId[r], req[r].uri))
            /\ cache' = cache /\ fetches' = fetches]_vars
  /\ [](\A r \in Reqs :
          promise[r] = "false" =>
            /\ fetches[r] = <<>>
            /\ \A i \in 1..Len(updates[r]) : updates[r][i][2] = FALSE
            /\ Returned(r) => result[r] = Denied /\ UpdatedEachHandle(r, FALSE))

C15_Witness ==
  \E r \in Reqs :
    /\ promise[r] = "false" /\ pc[r] = "done" /\ ~halted
    /\ messageRefs[r] = {1, 2} /\ updates[r] = << <<1, FALSE>>, <<2, FALSE>> >>
    /\ fetches[r] = <<>> /\ cache[req[r].uri] = NoEntry
    /\ auditLog = << Audit("request", "pending", requestId[r], req[r].uri),
                     Audit("denied", "", requestId[r], req[r].uri) >>
    /\ out = << <<r, Denied>> >>

TimedOut == Resp("error", "Approval timed out", config.approvalTimeoutMs)

StandingRead(line) == GatedRead(line) /\ line.reason # NoReason /\ Standing(line)

\* C17: a gated read whose item and reason match a standing rule mints no
\* id, prompts no channel and registers nothing; it audits
\* read/standing_approval and issues the elevated fetch, and when the fetch
\* settles audits read/standing_approved_read and returns the value, or
\* audits read_error and returns the error.
C17_StandingServedWithoutApproval ==
  /\ [][\A r \in Reqs :
          (Received(r) /\ StandingRead(req'[r])) =>
            /\ auditLog' = Append(auditLog, Audit("read", "standing_approval", Null, req'[r].uri))
            /\ fetches'[r] = <<TRUE>> /\ pc'[r] = "standingFetch"
            /\ result'[r] = NoResp
            /\ prompts' = prompts /\ pendingRequests' = pendingRequests
            /\ timer' = timer /\ pollInterval' = pollInterval]_vars
  /\ [][\A r \in Reqs :
          (pc[r] = "standingFetch" /\ pc'[r] # pc[r]) =>
            /\ StandingRead(req[r]) /\ pc'[r] = "respond"
            /\ \/ /\ FetchDone(r, TRUE)
                  /\ result'[r] = Value(SecretFor(r))
                  /\ auditLog' = Append(auditLog,
                         Audit("read", "standing_approved_read", Null, req[r].uri))
               \/ /\ FetchDone(r, FALSE)
                  /\ result'[r].t = "error"
                  /\ auditLog' = Append(auditLog, Audit("read_error", "", Null, req[r].uri))
            /\ cache' = cache /\ prompts' = prompts]_vars
  /\ [](\A r \in Reqs :
          (pc[r] # "idle" /\ StandingRead(req[r])) =>
            /\ requestId[r] = Null /\ promise[r] = "none" /\ messageRefs[r] = {}
            /\ timer[r] = 0 - 1 /\ ~pollInterval[r] /\ updates[r] = <<>>
            /\ fetches[r] = <<TRUE>>
            /\ \A p \in prompts : p.req # r)

C17_Witness ==
  \E r \in Reqs :
    /\ StandingRead(req[r]) /\ pc[r] = "done" /\ requestId[r] = Null
    /\ out = << <<r, Value(SecretFor(r))>> >> /\ prompts = {}
    /\ auditLog = << Audit("read", "standing_approval", Null, req[r].uri),
                     Audit("read", "standing_approved_read", Null, req[r].uri) >>

IsPrefix(p, s) == Len(p) <= Len(s) /\ \A i \in 1..Len(p) : s[i] = p[i]

\* Rule i of the configuration accepts (item, reason).
Accepts(i, item, reason) ==
  LET sa == config.standingApprovals[i]
      n == Len(sa.reasonMatch)
  IN /\ sa.item = item
     /\ \/ sa.reasonMatch = reason
        \/ /\ n > 0 /\ sa.reasonMatch[n] = "*"
           /\ IsPrefix([k \in 1..(n - 1) |-> sa.reasonMatch[k]], reason)

Called == standing # 0 - 1

\* C18: matchesStandingApproval(item, reason) returns the first rule, in the
\* order of the configuration, whose item is the item and whose reasonMatch
\* is the reason or, ending with *, has the text before it as a prefix of
\* the reason; it returns none for an empty reason.  The pattern foo*
\* matches foo, foobar and foo:x and neither fo nor barfoo.
C18_FirstMatchingRule ==
  Called =>
    /\ standing \in 0..Len(config.standingApprovals)
    /\ argReason = NoReason => standing = 0
    /\ standing # 0 =>
         /\ Accepts(standing, argItem, argReason)
         /\ \A j \in 1..(standing - 1) : ~Accepts(j, argItem, argReason)
    /\ (standing = 0 /\ argReason # NoReason) =>
         \A j \in 1..Len(config.standingApprovals) : ~Accepts(j, argItem, argReason)
    /\ (config.standingApprovals = <<PrefixRule>> /\ argItem = "api-key") =>
         /\ argReason \in {foo, foo \o <<"b", "a", "r">>, foo \o <<":", "x">>} => standing = 1
         /\ argReason \in {<<"f", "o">>, <<"b", "a", "r">> \o foo} => standing = 0

C18_Witness ==
  /\ Called /\ config.standingApprovals = <<ExactRule, PrefixRule>>
  /\ argItem = "api-key" /\ argReason = foo \o <<":", "x">> /\ standing = 2

FanOutFailed == Error("Failed to send approval request to any channel")

ChannelErrors(id) ==
  {i \in 1..Len(auditLog) : auditLog[i].action = "channel_error" /\ auditLog[i].requestId = id}

\* C19: on the approval path the channels are prompted one after the
\* other, each with the id of the request; a prompt that fails is audited
\* as one channel_error and the loop goes on; after the last channel the
\* request registers and waits if a prompt succeeded, and otherwise returns
\* "Failed to send approval request to any channel" without ever having a
\* registry entry, a timer or a poller.
C19_FanOutNeedsOneSuccess ==
  /\ [][\A r \in Reqs :
          (Received(r) /\ pc'[r] = "sending") => chanIdx'[r] = 1 /\ messageRefs'[r] = {}]_vars
  /\ [][\A r \in Reqs :
          (pc[r] = "sending" /\ SendDone(r, TRUE)) =>
            /\ prompts' = prompts \cup {[req |-> r, chan |-> chanIdx[r], id |-> requestId[r]]}
            /\ messageRefs'[r] = messageRefs[r] \cup {chanIdx[r]}
            /\ auditLog' = auditLog]_vars
  /\ [][\A r \in Reqs :
          (pc[r] = "sending" /\ SendDone(r, FALSE)) =>
            /\ prompts' = prompts /\ messageRefs'[r] = messageRefs[r]
            /\ auditLog' = Append(auditLog,
                   Audit("channel_error", channels[chanIdx[r]], requestId[r], NoUri))]_vars
  /\ [][\A r \in Reqs :
          (pc[r] = "sending" /\ (pc'[r] # "sending" \/ chanIdx'[r] # chanIdx[r])) =>
            IF chanIdx[r] < Len(channels)
            THEN pc'[r] = "sending" /\ chanIdx'[r] = chanIdx[r] + 1
            ELSE IF messageRefs'[r] # {}
            THEN /\ pc'[r] = "waiting" /\ promise'[r] = "pending"
                 /\ pendingRequests'[requestId[r]] = r
                 /\ timer'[r] = config.approvalTimeoutMs /\ pollInterval'[r]
            ELSE /\ pc'[r] = "respond" /\ result'[r] = FanOutFailed
                 /\ pendingRequests' = pendingRequests
                 /\ timer' = timer /\ pollInterval' = pollInterval]_vars
  /\ [](\A r \in Reqs :
          /\ \A p \in prompts : p.req = r => p.id = requestId[r] /\ p.chan \in messageRefs[r]
          /\ promise[r] # "none" => (messageRefs[r] # {} \/ Len(channels) = 0)
          /\ result[r] = FanOutFailed =>
               /\ promise[r] = "none" /\ timer[r] = 0 - 1 /\ ~pollInterval[r]
               /\ pendingRequests[requestId[r]] # r
               /\ messageRefs[r] = {} /\ fetches[r] = <<>> /\ updates[r] = <<>>
               /\ Cardinality(ChannelErrors(requestId[r])) >= Len(channels))

C19_Witness ==
  \E r1, r2 \in Reqs :
    /\ result[r1] = FanOutFailed /\ pc[r1] = "done"
    /\ Cardinality(ChannelErrors(requestId[r1])) = 2
    /\ requestId[r2] # requestId[r1]
    /\ messageRefs[r2] = {2} /\ promise[r2] = "pending"
    /\ Cardinality(ChannelErrors(requestId[r2])) = 1
    /\ pendingRequests[requestId[r2]] = r2 /\ pendingRequests[requestId[r1]] = 0

DaemonStop == Audit("daemon_stop", "", Null, NoUri)

\* C20: SIGINT or SIGTERM audits daemon_stop, cleans up and resolves with
\* false every entry of the registry, leaving it empty and the timers and
\* pollers of its entries cleared, removes the socket file and the PID file
\* and exits: no handler runs afterwards, so no updateApprovalMessage is
\* called and nothing is written for those requests.
C20_ShutdownDeniesAllPending ==
  /\ [][(~halted /\ halted') =>
          /\ auditLog' = Append(auditLog, DaemonStop)
          /\ \A id \in Ids :
               /\ pendingRequests'[id] = 0
               /\ pendingRequests[id] # 0 =>
                    LET q == pendingRequests[id] IN
                      /\ promise[q] = "pending" /\ promise'[q] = "false"
                      /\ timer'[q] = 0 - 1 /\ ~pollInterval'[q]
                      /\ dropDir'[id] = "none"
          /\ files = {"socket", "pid"} /\ files' = {}
          /\ updates' = updates /\ fetches' = fetches /\ prompts' = prompts
          /\ pc' = pc /\ out' = out /\ result' = result]_vars
  /\ [][~halted]_vars
  /\ [](halted =>
          /\ files = {} /\ auditLog[Len(auditLog)] = DaemonStop
          /\ \A id \in Ids : pendingRequests[id] = 0
          /\ \A r \in Reqs : promise[r] = "false" /\ pc[r] = "waiting" => updates[r] = <<>>)
  /\ [](~halted => files = {"socket", "pid"})

C20_Witness ==
  /\ halted /\ files = {}
  /\ \E r1, r2 \in Reqs :
       /\ r1 # r2 /\ requestId[r1] # requestId[r2]
       /\ \A r \in {r1, r2} :
            /\ promise[r] = "false" /\ pc[r] = "waiting" /\ messageRefs[r] # {}
            /\ updates[r] = <<>> /\ timer[r] = 0 - 1 /\ ~pollInterval[r]
            /\ ~Responded(r)
  /\ Len(auditLog) = 3 /\ auditLog[3] = DaemonStop

\* C21: when the client closes its connection while a gated request of it
\* waits, nothing of the broker changes: the entry stays in the registry
\* with its timer and poller.  An approving resolution of the id still
\* resolves the waiter, who audits approved, issues the elevated fetch and,
\* when it succeeds, caches the value and audits approved_read; the
\* response is then dropped instead of written, and the broker runs on.
C21_DisconnectDoesNotCancel ==
  /\ [][Disconnect =>
          /\ pendingRequests' = pendingRequests /\ timer' = timer
          /\ pollInterval' = pollInterval /\ promise' = promise /\ pc' = pc
          /\ micro' = micro /\ auditLog' = auditLog /\ cache' = cache
          /\ ~halted']_vars
  /\ [][\A r \in Reqs :
          (~connOpen /\ promise[r] = "pending" /\ pendingRequests[requestId[r]] = r
             /\ ApprovingStep(requestId[r])) =>
            promise'[r] = "true" /\ micro' = Append(micro, r)]_vars
  /\ [][\A r \in Reqs :
          (~connOpen /\ promise[r] = "true" /\ pc[r] \in {"waiting", "updating"}
             /\ pc'[r] \notin {"waiting", "updating"}) =>
            /\ pc'[r] = "fetching" /\ fetches'[r] = <<TRUE>>
            /\ auditLog' = Append(auditLog, Audit("approved", "", requestId[r], req[r].uri))]_vars
  /\ [][\A r \in Reqs :
          (~connOpen /\ pc[r] = "fetching" /\ FetchDone(r, TRUE)) =>
            /\ result'[r] = Value(SecretFor(r)) /\ pc'[r] = "respond"
            /\ cache' = setCache(Cur, req[r].uri, SecretFor(r)).cache
            /\ auditLog' = Append(auditLog,
                   Audit("read", "approved_read", requestId[r], req[r].uri))]_vars
  /\ [][(~connOpen /\ WriteResponse) =>
          /\ out' = out /\ ~halted' /\ pc'[Head(micro)] = "done"
          /\ pendingRequests' = pendingRequests /\ timer' = timer]_vars

C21_Witness ==
  /\ ~connOpen /\ ~halted /\ out = <<>> /\ config.cacheTTL > 0
  /\ \E r1, r2 \in Reqs :
       /\ r1 # r2 /\ requestId[r1] # requestId[r2]
       /\ promise[r1] = "true" /\ pc[r1] = "done" /\ fetches[r1] = <<TRUE>>
       /\ result[r1] = Value(SecretFor(r1))
       /\ cache[req[r1].uri].value = SecretFor(r1)
       /\ \E i, j \in 1..Len(auditLog) :
            /\ i < j
            /\ auditLog[i] = Audit("approved", "", requestId[r1], req[r1].uri)
            /\ auditLog[j] = Audit("read", "approved_read", requestId[r1], req[r1].uri)
       /\ promise[r2] = "pending" /\ pc[r2] = "waiting"
       /\ pendingRequests[requestId[r2]] = r2 /\ timer[r2] >= 0 /\ pollInterval[r2]

\* What an audit record says happened.
AuditKind(e) == IF e.action = "read" THEN e.result ELSE e.action

\* The kinds of the records carrying the id, in the order of the log.
EventsOf(id) ==
  LET es == SelectSeq(auditLog, LAMBDA e : e.requestId = id)
  IN [i \in 1..Len(es) |-> AuditKind(es[i])]

TerminalKinds == {"approved", "denied", "timeout"}
ReadKinds == {"approved_read", "read_error"}

CausalOrder(s) ==
  /\ Len(s) >= 1 /\ s[1] = "request"
  /\ \A i \in 2..Len(s) : s[i] \in {"channel_error"} \cup TerminalKinds \cup ReadKinds
  /\ Cardinality({i \in 1..Len(s) : s[i] \in TerminalKinds}) <= 1
  /\ Cardinality({i \in 1..Len(s) : s[i] \in ReadKinds}) <= 1
  /\ \A i \in 1..Len(s) : s[i] \in ReadKinds => s[i - 1] = "approved"
  /\ \A i, j \in 1..Len(s) : (i < j /\ s[i] \in TerminalKinds) => s[j] \in ReadKinds

\* No other request carries the id of r.
OwnId(r) == requestId[r] # Null /\ \A q \in Reqs \ {r} : requestId[q] # requestId[r]

TerminalOf(r) ==
  CASE promise[r] = "true" -> "approved"
    [] promise[r] = "false" -> "denied"
    [] OTHER -> "timeout"

\* C22: the audit records of an approval-path request come in causal
\* order: request/pending first, then channel_error records, then at most
\* one of approved, denied and timeout, then, only after approved, exactly
\* one of read/approved_read and read_error; no channel_error follows the
\* terminal record and no approved_read comes without approved before it.
C22_AuditCausalOrder ==
  /\ [](\A r \in Reqs :
          OwnId(r) =>
            /\ CausalOrder(EventsOf(requestId[r]))
            /\ (Returned(r) /\ promise[r] = "true") =>
                 EventsOf(requestId[r])[Len(EventsOf(requestId[r]))] \in ReadKinds)
  /\ [][\A r \in Reqs :
          (Received(r) /\ requestId'[r] # Null) =>
            auditLog' = Append(auditLog, Audit("request", "pending", requestId'[r], req'[r].uri))]_vars
  /\ [][\A r \in Reqs :
          (pc[r] \in {"waiting", "updating"} /\ pc'[r] \in {"fetching", "respond"}) =>
            auditLog' = Append(auditLog, Audit(TerminalOf(r), "", requestId[r], req[r].uri))]_vars
  /\ [][\A r \in Reqs :
          (pc[r] = "fetching" /\ pc'[r] # "fetching") =>
            /\ \E i \in 1..Len(auditLog) :
                 auditLog[i] = Audit("approved", "", requestId[r], req[r].uri)
            /\ \/ auditLog' = Append(auditLog,
                       Audit("read", "approved_read", requestId[r], req[r].uri))
               \/ auditLog' = Append(auditLog, Audit("read_error", "", requestId[r], req[r].uri))]_vars

C22_Witness ==
  \E r1, r2 \in Reqs :
    /\ r1 # r2 /\ OwnId(r1) /\ OwnId(r2) /\ pc[r1] = "done" /\ pc[r2] = "done"
    /\ EventsOf(requestId[r1]) = <<"request", "channel_error", "approved", "approved_read">>
    /\ EventsOf(requestId[r2]) = <<"request", "denied">>

\* C23: once a pending request was resolved by a callback, its terminal
\* audit record (approved, respectively denied) is in the log before
\* updateApprovalMessage is called on any of its handles, and on approval
\* the provider is called only after the record and the calls on every
\* handle.
C23_TerminalAuditBeforeUpdates ==
  \A r \in Reqs :
    promise[r] \in {"true", "false"} =>
      /\ updates[r] # <<>> =>
           \E i \in 1..Len(auditLog) :
             auditLog[i] = Audit(TerminalOf(r), "", requestId[r], req[r].uri)
      /\ fetches[r] # <<>> =>
           /\ \E i \in 1..Len(auditLog) :
                auditLog[i] = Audit("approved", "", requestId[r], req[r].uri)
           /\ UpdatedEachHandle(r, TRUE)

\* The number of entries of the registry.
PendingSize == Cardinality({i \in Ids : pendingRequests[i] # 0})

\* C24: POST /callback and POST /channel-callback naming an id without
\* registry entry answer 200 {ok: true, resolved: false} and leave the
\* whole state as it is (registry, timers, pollers, cache, audit log, drop
\* directory); resolved is true exactly when the id had an entry; a
\* /callback body without requestId answers 400 and changes nothing.
C24_UnknownIdIsNoOp ==
  /\ \A body \in CallbackBodies :
       LET o == callback(Cur, body) IN
         IF body.requestId = Null
         THEN o.res.status = 400 /\ o.state = Cur
         ELSE /\ o.res = HttpOk(pendingRequests[body.requestId] # 0)
              /\ pendingRequests[body.requestId] = 0 => o.state = Cur
  /\ \A data \in CallbackData :
       LET o == channelCallback(Cur, data) IN
         IF data.id = Null
         THEN o.res.status = 400 /\ o.state = Cur
         ELSE /\ o.res = HttpOk(pendingRequests[data.id] # 0)
              /\ pendingRequests[data.id] = 0 => o.state = Cur

\* An id that was resolved before is named again while another request
\* waits with its entry, timer and poller.
C24_Witness ==
  /\ Idle
  /\ \E r1, r2 \in Reqs :
       /\ r1 # r2 /\ requestId[r1] # requestId[r2]
       /\ promise[r1] = "false" /\ pc[r1] = "done" /\ pendingRequests[requestId[r1]] = 0
       /\ callback(Cur, [requestId |-> requestId[r1], approved |-> "true"]).res = HttpOk(FALSE)
       /\ callback(Cur, [requestId |-> requestId[r1], approved |-> "true"]).state = Cur
       /\ promise[r2] = "pending" /\ pendingRequests[requestId[r2]] = r2
       /\ timer[r2] >= 0 /\ pollInterval[r2]
       /\ callback(Cur, [requestId |-> requestId[r2], approved |-> "true"]).res = HttpOk(TRUE)

\* C25: ping, status and GET /health leave the registry, the cache, the
\* audit log and the drop directory (and the timers and pollers) as they
\* are, and report as pending count the number of registry entries at that
\* moment.
C25_PingStatusHealthReadOnly ==
  /\ [][\A r \in Reqs :
          (Received(r) /\ req'[r].action \in {"ping", "status"}) =>
            /\ result'[r] = Resp(IF req'[r].action = "ping" THEN "ok" ELSE "running",
                                 req'[r].action, PendingSize)
            /\ pendingRequests' = pendingRequests /\ cache' = cache
            /\ auditLog' = auditLog /\ dropDir' = dropDir
            /\ timer' = timer /\ pollInterval' = pollInterval /\ promise' = promise
            /\ fetches' = fetches /\ updates' = updates /\ prompts' = prompts]_vars
  /\ [](health(Cur).state = Cur /\ health(Cur).res.status = 200
          /\ health(Cur).res.pending = PendingSize)

C25_Witness ==
  /\ health(Cur).res.pending = 1
  /\ \E r1, r2 \in Reqs :
       /\ r1 < r2 /\ promise[r1] = "pending" /\ pendingRequests[requestId[r1]] = r1
       /\ req[r2] = StatusLine /\ pc[r2] = "done"
       /\ out = << <<r2, Resp("running", "status", 1)>> >>
       /\ Len(auditLog) = 1

ResponsesTo(r) == {i \in 1..Len(out) : out[i][1] = r}

\* C26: every line that is not empty gets exactly one response line and an
\* empty line gets none; a line that is not valid JSON gets Invalid JSON
\* and the connection stays open for later lines; an unknown action gets
\* the Unknown action error.  A line whose handling has ended, or that the
\* broker had received when it stopped, has its response.
C26_OneResponsePerLine ==
  \A r \in Reqs :
    pc[r] # "idle" =>
      /\ Cardinality(ResponsesTo(r)) <= 1
      /\ req[r].kind = "empty" => ResponsesTo(r) = {}
      /\ req[r].kind = "malformed" =>
           (connOpen /\ \E i \in ResponsesTo(r) : out[i][2] = Error("Invalid JSON"))
      /\ (req[r] = UnknownLine /\ pc[r] = "done") =>
           \E i \in ResponsesTo(r) : out[i][2] = Error("Unknown action")
      /\ (req[r].kind # "empty" /\ (pc[r] = "done" \/ halted)) =>
           Cardinality(ResponsesTo(r)) = 1

\* C27: every read ends in exactly one response object carrying a value or
\* an error, whichever way the provider and channel calls return: a handler
\* that returned did so with a value or an error, a read whose handling
\* has ended has its one response, and no read is still suspended in its
\* wait for approval once the broker has shut down.
C27_EveryReadGetsItsResponse ==
  \A r \in Reqs :
    (pc[r] # "idle" /\ req[r].action = "read") =>
      /\ Returned(r) => result[r].t \in {"value", "error"}
      /\ pc[r] = "done" => Cardinality(ResponsesTo(r)) = 1
      /\ halted => pc[r] # "waiting"

\* C28: a broker running with a gated list has at least one active
\* channel: a gated request on the approval path has a channel to prompt,
\* and none waits without a prompt having been sent for it.
C28_GatedHasActiveChannel ==
  \A r \in Reqs :
    requestId[r] # Null =>
      /\ config.gatedVaults # {} /\ Len(channels) >= 1
      /\ promise[r] = "pending" => \E p \in prompts : p.req = r

\* validate was called and threw, or returned the configuration.
Threw == errors # NotCalled /\ errors # {}
Accepted == errors = {}

\* C29: validate accepts a configuration exactly when it lists at least one
\* open or gated container, has at least one channel key if the gated list
\* is not empty, has a non-empty item and a non-empty reasonMatch in every
\* standing rule, and has a number of at least 10000 as approvalTimeoutMs;
\* otherwise it throws.
C29_ValidateAcceptsExactly ==
  errors # NotCalled =>
    /\ Accepted \/ Threw
    /\ Accepted <=>
         /\ config.openVaults # {} \/ config.gatedVaults # {}
         /\ config.gatedVaults # {} => Len(config.channels) >= 1
         /\ \A i \in 1..Len(config.standingApprovals) :
              /\ config.standingApprovals[i].item # ""
              /\ config.standingApprovals[i].reasonMatch # <<>>
         /\ config.approvalTimeoutMs.typeof = "number"
         /\ config.approvalTimeoutMs.value >= 10000

C29_Witness ==
  /\ Accepted
  /\ config.approvalTimeoutMs = Num(10000)
  /\ config.openVaults = {} /\ config.gatedVaults = {"Sec"}
  /\ config.channels = <<"slack">> /\ config.standingApprovals = <<CronRule>>

\* The step stores an entry for u or renews the one it has.
Inserted(u) ==
  /\ cache'[u] # NoEntry
  /\ cache'[u].value # cache[u].value \/ cache'[u].expiresAt > cache[u].expiresAt

\* C30: an entry enters the cache, or is renewed, only in the step in
\* which the elevated fetch of a gated request succeeds after that request
\* was approved by a resolution of the id whose registry entry was its own;
\* open reads, standing reads, cache hits, denials, timeouts and failed
\* fetches store nothing.
C30_CacheOnlyAfterApprovedFetch ==
  /\ [][\A u \in UriSet :
          Inserted(u) =>
            \E r \in Reqs :
              /\ req[r].uri = u /\ GatedRead(req[r]) /\ ~StandingRead(req[r])
              /\ promise[r] = "true" /\ pc[r] = "fetching" /\ fetches[r] = <<TRUE>>
              /\ FetchDone(r, TRUE)
              /\ cache'[u] = [value |-> SecretFor(r), expiresAt |-> config.cacheTTL]
              /\ result'[r] = Value(SecretFor(r))]_vars
  /\ [][\A r \in Reqs :
          (promise'[r] = "true" /\ promise[r] # "true") =>
            /\ promise[r] = "pending" /\ pendingRequests[requestId[r]] = r
            /\ ResolutionStep(requestId[r])
            /\ cache' = cache]_vars
  /\ [](\A u \in UriSet :
          cache[u] # NoEntry =>
            \E r \in Reqs :
              /\ req[r].uri = u /\ GatedRead(req[r]) /\ promise[r] = "true"
              /\ result[r] = Value(cache[u].value) /\ cache[u].value = SecretFor(r))

C30_Witness ==
  \E r1, r2 \in Reqs :
    /\ promise[r1] = "true" /\ pc[r1] = "done"
    /\ cache[req[r1].uri] = [value |-> SecretFor(r1), expiresAt |-> config.cacheTTL]
    /\ StandingRead(req[r2]) /\ pc[r2] = "done" /\ result[r2] = Value(SecretFor(r2))
    /\ cache[req[r2].uri] = NoEntry

\* C32: a drop file for a pending id that cannot be parsed is left where it
\* is by a scan, which resolves nothing and leaves the poller running; the
\* file goes away only when its writer completes it or when the entry of
\* the id is cleaned up, and once it holds a complete body the scan of the
\* request that owns the entry consumes it and resolves the request with
\* its content.
C32_MalformedDropFileLeft ==
  /\ [](\A r \in Reqs :
          (pollInterval[r] /\ dropDir[requestId[r]] = "bad") => pollOnce(Cur, r) = Cur)
  /\ [][\A id \in Ids :
          (dropDir[id] = "bad" /\ dropDir'[id] # "bad") =>
            \/ dropDir'[id] \in WellFormed /\ pendingRequests' = pendingRequests
                 /\ promise' = promise
            \/ dropDir'[id] = "none" /\ pendingRequests[id] # 0
                 /\ pendingRequests'[id] = 0]_vars
  /\ [][\A r \in Reqs :
          (Poll(r) /\ dropDir[requestId[r]] \in WellFormed
             /\ pendingRequests[requestId[r]] = r) =>
            /\ promise'[r] = dropDir[requestId[r]]
            /\ dropDir'[requestId[r]] = "none"]_vars

C32_Witness ==
  /\ Idle
  /\ \E r \in Reqs :
       /\ promise[r] = "pending" /\ pendingRequests[requestId[r]] = r
       /\ pollInterval[r] /\ dropDir[requestId[r]] = "bad"
       /\ timer[r] = 0
       /\ pollOnce(Cur, r) = Cur

\* The step removes the drop file of the id.
Unlinked(id) == dropDir[id] # "none" /\ dropDir'[id] = "none"

\* The id was minted once at most.
MintedOnce(id) == \A r, q \in Reqs : (requestId[r] = id /\ requestId[q] = id) => r = q

Woken(r) == \E i \in 1..Len(micro) : micro[i] = r

ApprovedFetchFailed(q) ==
  promise[q] = "true" /\ Returned(q) /\ result[q] = Error("provider failure")

\* C38: when the elevated fetch of an approved request fails, the handler
\* returns the provider's error and audits read_error after approved for the
\* id, the cache is as it was, and no approved_read is ever audited for an
\* id minted once; a later read of the reference that finds no fresh cache
\* entry mints an id and asks for an approval again.
C38_ApprovedFetchFailure ==
  /\ [][\A r \in Reqs :
          (pc[r] = "fetching" /\ FetchDone(r, FALSE)) =>
            /\ promise[r] = "true"
            /\ result'[r] = Error("provider failure") /\ pc'[r] = "respond"
            /\ auditLog' = Append(auditLog, Audit("read_error", "", requestId[r], req[r].uri))
            /\ \E i \in 1..Len(auditLog) :
                 auditLog[i] = Audit("approved", "", requestId[r], req[r].uri)
            /\ cache' = cache]_vars
  /\ [](\A q \in Reqs :
          (ApprovedFetchFailed(q) /\ MintedOnce(requestId[q])) =>
            \A i \in 1..Len(auditLog) :
              auditLog[i] # Audit("read", "approved_read", requestId[q], req[q].uri))
  /\ [][\A r \in Reqs :
          (Received(r) /\ GatedOnly(req'[r]) /\ req'[r].reason # NoReason
             /\ ~Standing(req'[r])
             /\ getCachedValue(Cur, req'[r].uri) = Null
             /\ \E q \in Reqs : ApprovedFetchFailed(q) /\ req[q].uri = req'[r].uri) =>
            /\ requestId'[r] # Null /\ promise'[r] \in {"none", "pending"}
            /\ result'[r] = NoResp /\ fetches'[r] = <<>>
            /\ auditLog' = Append(auditLog, Audit("request", "pending", requestId'[r], req'[r].uri))]_vars

\* With a cache configured, the first read of a reference was approved and
\* its fetch failed; the second read of the reference waits for an approval.
C38_Witness ==
  /\ config.cacheTTL > 0
  /\ \E q, r \in Reqs :
       /\ q < r /\ req[q].uri = req[r].uri /\ ApprovedFetchFailed(q)
       /\ fetches[q] = <<TRUE>> /\ cache[req[q].uri] = NoEntry
       /\ promise[r] = "pending" /\ requestId[r] # requestId[q]

\* Two spellings of one container name.
NameClasses == {{"sec", "Sec", "SEC"}, {"pub", "Pub", "PUB"}, {"other", "OTHER"}}
SameName(a, b) == \E K \in NameClasses : a \in K /\ b \in K
ListedOpen(line) == \E o \in config.openVaults : SameName(o, parseUri(line.uri).vault)
ListedGated(line) == \E g \in config.gatedVaults : SameName(g, parseUri(line.uri).vault)

\* The request took the open path: audited as allowed, fetched with the
\* caller's own identity, no id.
OnOpenPath(r) ==
  /\ pc'[r] = "openFetch" /\ fetches'[r] = <<FALSE>> /\ requestId'[r] = Null
  /\ auditLog' = Append(auditLog, Audit("read", "allowed", Null, req'[r].uri))
  /\ prompts' = prompts

\* The request (reason given, no standing rule, no cache) took the gated
\* path: an id is minted and request/pending is audited.
OnGatedPath(r) ==
  /\ requestId'[r] # Null /\ fetches'[r] = <<>> /\ pc'[r] \in {"sending", "waiting"}
  /\ auditLog' = Append(auditLog, Audit("request", "pending", requestId'[r], req'[r].uri))

\* C31: a read is classified by its container name without regard to case,
\* on the side of the request and on the side of the two lists: it takes
\* the open path when some spelling of its container is in openVaults, else
\* the gated path when some spelling is in gatedVaults, else it is refused
\* as not configured.
C31_ClassificationIgnoresCase ==
  [][\A r \in Reqs :
       (Received(r) /\ req'[r].action = "read" /\ parseUri(req'[r].uri) # NullParsed) =>
         /\ ListedOpen(req'[r]) => OnOpenPath(r)
         /\ (ListedGated(req'[r]) /\ ~ListedOpen(req'[r])) =>
              IF req'[r].reason # NoReason THEN OnGatedPath(r)
              ELSE /\ result'[r] = Error("Reason is REQUIRED for gated vault items")
                   /\ pc'[r] = "respond" /\ auditLog' = auditLog
         /\ (~ListedGated(req'[r]) /\ ~ListedOpen(req'[r])) =>
              /\ result'[r] = Error("Vault is not configured as open or gated")
              /\ pc'[r] = "respond" /\ auditLog' = auditLog]_vars

\* No list holds the spelling the request uses: "SEC" was gated by a list
\* saying "Sec", and "pub" was served openly by a list saying "PUB".
C31_Witness ==
  /\ config.openVaults = {"PUB"} /\ config.gatedVaults = {"Sec"}
  /\ \E r1, r2 \in Reqs :
       /\ parseUri(req[r1].uri).vault = "SEC" /\ requestId[r1] # Null
       /\ promise[r1] = "pending"
       /\ parseUri(req[r2].uri).vault = "pub" /\ requestId[r2] = Null
       /\ result[r2].t = "value" /\ pc[r2] = "done"

\* Some spelling of the container of the line is in both lists.
ListedTwice(line) ==
  /\ line.action = "read" /\ parseUri(line.uri) # NullParsed
  /\ ListedOpen(line) /\ ListedGated(line)

\* C39: validate accepts a configuration that lists a container as open and
\* as gated, and a read of such a container, with or without a reason, is
\* audited as allowed and fetched without the service account; it mints no
\* id, prompts nobody, registers nothing and is never refused for its
\* missing reason.
C39_ListedTwiceIsOpen ==
  /\ \A c \in ClassifyConfigs :
       (\E o \in c.openVaults, g \in c.gatedVaults : SameName(o, g)) =>
         validate(InMs(c)) = {}
  /\ [][\A r \in Reqs :
          (Received(r) /\ ListedTwice(req'[r])) =>
            /\ OnOpenPath(r)
            /\ pendingRequests' = pendingRequests /\ promise'[r] = "none"]_vars
  /\ [](\A r \in Reqs :
          ListedTwice(req[r]) =>
            /\ requestId[r] = Null /\ promise[r] = "none" /\ messageRefs[r] = {}
            /\ \A p \in prompts : p.req # r
            /\ fetches[r] = <<FALSE>>
            /\ result[r] # Error("Reason is REQUIRED for gated vault items"))

\* "SEC" is open and "Sec" is gated: a read of "Sec" without a reason was
\* served by a plain fetch.
C39_Witness ==
  /\ config.openVaults = {"pub", "SEC"} /\ config.gatedVaults = {"Sec"}
  /\ \E r \in Reqs :
       /\ parseUri(req[r].uri).vault = "Sec" /\ req[r].reason = NoReason
       /\ result[r].t = "value" /\ fetches[r] = <<FALSE>>
       /\ requestId[r] = Null /\ pc[r] = "done"

\* The values of approved that deny: false, missing, null, 0 and ''.
Denying == {"false", "undefined", "null", "0", "''"}
VerdictOf(approved) == IF approved \in Denying THEN "false" ELSE "true"

\* C40: a callback or a drop file naming a pending id resolves its request
\* as denied when approved is false, missing, null, 0 or '', and as approved
\* for every other value, the string 'false' included; a channel callback
\* approves for the verb approve and denies for the verb deny.
C40_ApprovedIffTruthy ==
  /\ [][\A id \in Ids, approved \in JsValues :
          (Callback(id, approved) /\ pendingRequests[id] # 0) =>
            promise'[pendingRequests[id]] = VerdictOf(approved)]_vars
  /\ [][\A r \in Reqs :
          (Poll(r) /\ dropDir[requestId[r]] \in JsValues
             /\ pendingRequests[requestId[r]] = r) =>
            promise'[r] = VerdictOf(dropDir[requestId[r]])]_vars
  /\ [][\A id \in Ids, verb \in {"approve", "deny"} :
          (ChannelCallback(verb, id) /\ pendingRequests[id] # 0) =>
            promise'[pendingRequests[id]] = (IF verb = "approve" THEN "true" ELSE "false")]_vars
  /\ [](\A id \in Ids, approved \in JsValues :
          pendingRequests[id] # 0 =>
            resolveApproval(Cur, id, approved).promise[pendingRequests[id]] = VerdictOf(approved))

\* A pending request whose drop file says approved: 'false': the next scan
\* approves it, and a callback saying approved: 0 would deny it.
C40_Witness ==
  /\ Idle
  /\ \E r \in Reqs :
       /\ promise[r] = "pending" /\ pendingRequests[requestId[r]] = r /\ pollInterval[r]
       /\ dropDir[requestId[r]] = "'false'"
       /\ pollOnce(Cur, r).promise[r] = "true"
       /\ callback(Cur, [requestId |-> requestId[r], approved |-> "0"]).state.promise[r] = "false"

\* The state with the audit log unwritable, and with it writable.
Failing(M) == [M EXCEPT !.auditFails = TRUE]
Working(M) == [M EXCEPT !.auditFails = FALSE]

\* The state apart from where the audit records went.
Apart(M) == [M EXCEPT !.auditLog = <<>>, !.stderr = <<>>, !.auditFails = FALSE]

\* What a sequence gained.
Emitted(before, after) == SubSeq(after, Len(before) + 1, Len(after))

\* A is what a handler makes of the present state with the log unwritable,
\* B with the log writable: the same state and response, and the records B
\* appended to the log are the ones A wrote to stderr, in the same order.
Mirrored(A, B) ==
  /\ Apart(A) = Apart(B)
  /\ A.auditLog = auditLog /\ B.stderr = stderr
  /\ Emitted(stderr, A.stderr) = Emitted(auditLog, B.auditLog)

\* C34: whatever a handler does with the audit log writable it does with the
\* log unwritable, response included, except that each record it emits goes
\* to stderr instead of the log; no step loses a record already written.
C34_AuditFailureOnlyMirrors ==
  /\ [](nreq < MaxReq =>
          \A line \in Lines \ {EmptyLine, MalformedLine}, id \in generateRequestId :
            Mirrored(handleRequest(Failing(Cur), nreq + 1, line, id),
                     handleRequest(Working(Cur), nreq + 1, line, id)))
  /\ [](\A r \in Reqs :
          /\ pc[r] \in {"openFetch", "standingFetch", "fetching"} =>
               \A ok \in BOOLEAN :
                 Mirrored(fetchDone(Failing(Cur), r, ok), fetchDone(Working(Cur), r, ok))
          /\ pc[r] = "updating" =>
               Mirrored(UpdateLoop(Failing(Cur), r, chanIdx[r] + 1),
                        UpdateLoop(Working(Cur), r, chanIdx[r] + 1))
          /\ (pc[r] = "waiting" /\ promise[r] \in Settled) =>
               Mirrored(UpdateLoop(Failing(Cur), r, 1), UpdateLoop(Working(Cur), r, 1))
          /\ timer[r] = 0 =>
               Mirrored(timerFires(Failing(Cur), r), timerFires(Working(Cur), r)))
  /\ [](Mirrored(shutdown(Failing(Cur)), shutdown(Working(Cur))))
  /\ [](\A body \in CallbackBodies :
          Mirrored(callback(Failing(Cur), body).state, callback(Working(Cur), body).state))
  /\ [][/\ Emitted(auditLog, auditLog') = <<>> \/ ~auditFails
        /\ Emitted(stderr, stderr') = <<>> \/ auditFails
        /\ SubSeq(auditLog', 1, Len(auditLog)) = auditLog
        /\ SubSeq(stderr', 1, Len(stderr)) = stderr]_vars

\* With the log unwritable from the start, a gated read was prompted,
\* approved, fetched and answered with its value; its three records are on
\* stderr and the log is empty.
C34_Witness ==
  /\ auditFails /\ auditLog = <<>>
  /\ \E r \in Reqs :
       /\ stderr = << Audit("request", "pending", requestId[r], req[r].uri),
                      Audit("approved", "", requestId[r], req[r].uri),
                      Audit("read", "approved_read", requestId[r], req[r].uri) >>
       /\ result[r] = Value(SecretFor(r)) /\ out = << <<r, result[r]>> >>

\* C35: whenever the process has ended, by shutdown or by a failure during
\* startup, the PID file and the socket are gone.
C35_ReleasedOnEveryExit == halted => files = {}

====
